---- MODULE Spec2Model ----
(***************************************************************************)
(* Distributed in-memory file storage: the chunk codec (pkg/chunking), the *)
(* node store and its HTTP endpoints, the node client, and the placement   *)
(* coordinator (cmd/api).                                                  *)
(*                                                                         *)
(* The specifications of the module:                                       *)
(*   SpecCodec  the pure codec functions applied to enumerated inputs      *)
(*   SpecStore  one node store (MemoryStorage) and a caller of its methods *)
(*   Spec       the coordinator, its per-chunk tasks and the node servers  *)
(*   SpecOpen   Spec with info requests and stores sent straight to nodes  *)
(*   SpecHealth the coordinator's health request                           *)
(*   SpecLock   the coordinator's handlers at the grain of the metadata    *)
(*              lock                                                       *)
(*   SpecFan    one fan-out of the coordinator at the grain of its         *)
(*              goroutines, with fair scheduling                           *)
(*   SpecApi    the API client's calls against the coordinator's router    *)
(***************************************************************************)
EXTENDS Integers, Sequences, FiniteSets, TLC

(***************************************************************************)
(* Bounds of the model.                                                    *)
(***************************************************************************)
\* bytes are 0..ByteMax
ByteMax == 1
\* longest file content enumerated for the codec
MaxLen == 3
\* largest chunk count enumerated for the codec (the smallest is -1)
MaxK == 3

Bytes == 0..ByteMax

SeqsUpTo(S, n) == UNION {[1..k -> S] : k \in 0..n}

(***************************************************************************)
(* Byte payloads.  A Go []byte is either nil or a (possibly empty) byte    *)
(* sequence; NilData stands for the nil slice.  len(nil) = 0 and writing   *)
(* or hashing nil appends nothing.                                         *)
(***************************************************************************)
NilData == <<-1>>

DataBytes(d) == IF d = NilData THEN <<>> ELSE d

DataLen(d) == Len(DataBytes(d))

(***************************************************************************)
(* SHA-256 rendered with %x.  The digest is modelled as collision free: a  *)
(* positional encoding of the bytes (digits 1..ByteMax+1 in base           *)
(* ByteMax+2), which is injective on byte sequences.                       *)
(***************************************************************************)
RECURSIVE calculateChecksum(_)
calculateChecksum(data) ==
    IF data = <<>> THEN 0
    ELSE calculateChecksum(SubSeq(data, 1, Len(data) - 1)) * (ByteMax + 2)
         + data[Len(data)] + 1

\* a chunk id that leaves the file id out
ChunkIDIndexOnly(fileID, i) == <<0, "_chunk_", i>>

\* fmt.Sprintf("%s_chunk_%d", fileID, i)
ChunkID(fileID, i) == <<fileID, "_chunk_", i>>

FileChunk(id, index, fileID, size, checksum, data) ==
    [id |-> id, index |-> index, file_id |-> fileID, size |-> size,
     checksum |-> checksum, data |-> data]

NoMetadata ==
    [id |-> -1, size |-> 0, checksum |-> 0, chunk_count |-> 0, chunks |-> <<>>]

(***************************************************************************)
(* chunking.ChunkFile.  `file` is the content of the file at filePath.     *)
(* Go integer division by zero panics; make([]T, n) with n < 0 panics.     *)
(***************************************************************************)
\* the size of chunk i: the last chunk gets the remainder
CurrentChunkSizeDropRemainder(i, chunkCount, chunkSize, remainder) == chunkSize

CurrentChunkSizeFirst(i, chunkCount, chunkSize, remainder) ==
    IF i = 0 THEN chunkSize + remainder ELSE chunkSize

CurrentChunkSize(i, chunkCount, chunkSize, remainder) ==
    IF i = chunkCount - 1 THEN chunkSize + remainder ELSE chunkSize

\* the checksum of a chunk is taken over the chunk's own bytes
ChunkChecksumWholeFile(file, chunkData) == calculateChecksum(file)

ChunkChecksum(file, chunkData) == calculateChecksum(chunkData)

\* the loop of ChunkFile from chunk i on, the file offset at pos; ok is FALSE
\* when io.ReadFull hits the end of the file
RECURSIVE ChunkFileLoop(_, _, _, _, _, _, _, _)
ChunkFileLoop(file, pos, i, chunkCount, chunkSize, remainder, fileID, acc) ==
    IF i >= chunkCount THEN [ok |-> TRUE, chunks |-> acc]
    ELSE LET currentChunkSize == CurrentChunkSize(i, chunkCount, chunkSize, remainder)
         IN  IF pos + currentChunkSize > Len(file)
             THEN [ok |-> FALSE, chunks |-> acc]
             ELSE LET chunkData == SubSeq(file, pos + 1, pos + currentChunkSize)
                      chunk == FileChunk(ChunkID(fileID, i), i, fileID,
                                         currentChunkSize,
                                         ChunkChecksum(file, chunkData), chunkData)
                  IN  ChunkFileLoop(file, pos + currentChunkSize, i + 1, chunkCount,
                                    chunkSize, remainder, fileID, Append(acc, chunk))

ChunkFile(file, chunkCount, fileID) ==
    IF chunkCount = 0
    THEN [status |-> "panic", err |-> "integer divide by zero", metadata |-> NoMetadata]
    ELSE IF chunkCount < 0
    THEN [status |-> "panic", err |-> "makeslice: len out of range", metadata |-> NoMetadata]
    ELSE LET fileSize == Len(file)
             chunkSize == fileSize \div chunkCount
             remainder == fileSize % chunkCount
             read == ChunkFileLoop(file, 0, 0, chunkCount, chunkSize, remainder,
                                   fileID, <<>>)
             chunks == read.chunks
         IN  IF ~read.ok
             THEN [status |-> "error", err |-> "read chunk", metadata |-> NoMetadata]
             ELSE [status |-> "ok", err |-> "",
                   metadata |-> [id |-> fileID, size |-> fileSize,
                                 checksum |-> calculateChecksum(file),
                                 chunk_count |-> chunkCount, chunks |-> chunks]]

(***************************************************************************)
(* chunking.ReconstructFile.  The exchange sort is the code's two loops.   *)
(***************************************************************************)
Swap(c, i, j) == [c EXCEPT ![i] = c[j], ![j] = c[i]]

RECURSIVE SortInner(_, _, _)
SortInner(c, i, j) ==
    IF j > Len(c) THEN c
    ELSE SortInner(IF c[i].index > c[j].index THEN Swap(c, i, j) ELSE c, i, j + 1)

\* a single pass of the outer loop
SortOuterOnePass(c, i) == SortInner(c, i, i + 1)

RECURSIVE SortOuter(_, _)
SortOuter(c, i) ==
    IF i > Len(c) THEN c ELSE SortOuter(SortInner(c, i, i + 1), i + 1)

SortChunksUnsorted(chunks) == chunks

SortChunks(chunks) == SortOuter(chunks, 1)

\* positions (0-based) whose chunk carries another index
Misplaced(sorted) == {i \in 0..(Len(sorted) - 1) : sorted[i + 1].index # i}

Min(S) == CHOOSE x \in S : \A y \in S : x <= y

\* only the first payload is written
ConcatDataFirst(chunks) ==
    IF chunks = <<>> THEN <<>> ELSE DataBytes(chunks[1].data)

RECURSIVE ConcatData(_)
ConcatData(chunks) ==
    IF chunks = <<>> THEN <<>>
    ELSE DataBytes(chunks[1].data) \o ConcatData(Tail(chunks))

\* index is the position named by the MissingChunk error (-1 when none is named)
ReconstructFile(chunks) ==
    IF Len(chunks) = 0
    THEN [status |-> "NoChunks", index |-> -1, output |-> <<>>, chunks |-> chunks]
    ELSE LET sorted == SortChunks(chunks)
         IN  IF Misplaced(sorted) # {}
             THEN [status |-> "MissingChunk", index |-> Min(Misplaced(sorted)),
                   output |-> <<>>, chunks |-> sorted]
             ELSE [status |-> "ok", index |-> -1, output |-> ConcatData(sorted),
                   chunks |-> sorted]

(***************************************************************************)
(* chunking.ValidateChunk                                                  *)
(***************************************************************************)
ValidateChunkNoChecksum(chunk) ==
    IF chunk.data = NilData THEN "DataAbsent"
    ELSE IF DataLen(chunk.data) # chunk.size THEN "SizeMismatch"
    ELSE "ok"

ValidateChunk(chunk) ==
    IF chunk.data = NilData THEN "DataAbsent"
    ELSE IF DataLen(chunk.data) # chunk.size THEN "SizeMismatch"
    ELSE IF calculateChecksum(DataBytes(chunk.data)) # chunk.checksum
    THEN "ChecksumMismatch"
    ELSE "ok"

(***************************************************************************)
(* chunking.ValidateFileMetadata.  The loop returns at the first chunk, in *)
(* slice order, whose index or file id is wrong.                           *)
(***************************************************************************)
RECURSIVE TotalSize(_)
TotalSize(chunks) ==
    IF chunks = <<>> THEN 0 ELSE chunks[1].size + TotalSize(Tail(chunks))

\* the 0-based positions at which the loop returns an error
BadIndex(metadata) ==
    {i \in 0..(Len(metadata.chunks) - 1) : metadata.chunks[i + 1].index # i}

BadFileID(metadata) ==
    {i \in 0..(Len(metadata.chunks) - 1) : metadata.chunks[i + 1].file_id # metadata.id}

ValidateFileMetadataNoFileID(metadata) ==
    IF Len(metadata.chunks) # metadata.chunk_count THEN "CountMismatch"
    ELSE IF BadIndex(metadata) # {} THEN "IndexMismatch"
    ELSE IF TotalSize(metadata.chunks) # metadata.size THEN "TotalSizeMismatch"
    ELSE "ok"

ValidateFileMetadata(metadata) ==
    IF Len(metadata.chunks) # metadata.chunk_count THEN "CountMismatch"
    ELSE IF BadIndex(metadata) \cup BadFileID(metadata) # {}
    THEN LET i == Min(BadIndex(metadata) \cup BadFileID(metadata))
         IN  IF i \in BadIndex(metadata) THEN "IndexMismatch" ELSE "FileIDMismatch"
    ELSE IF TotalSize(metadata.chunks) # metadata.size THEN "TotalSizeMismatch"
    ELSE "ok"

(***************************************************************************)
(* StreamingAPIServer.chunkFileInMemory (the coordinator's splitter)       *)
(***************************************************************************)
\* a splitter whose last chunk does not take the remainder
chunkFileInMemoryEven(data, fileID, chunkCount) ==
    LET chunkSize == Len(data) \div chunkCount
        chunkAt(i) ==
            LET chunkData == SubSeq(data, i * chunkSize + 1, (i + 1) * chunkSize)
            IN  FileChunk(ChunkID(fileID, i), i, fileID, Len(chunkData),
                          calculateChecksum(chunkData), chunkData)
    IN  [status |-> "ok", err |-> "",
         chunks |-> [p \in 1..chunkCount |-> chunkAt(p - 1)]]

chunkFileInMemory(data, fileID, chunkCount) ==
    IF chunkCount = 0
    THEN [status |-> "panic", err |-> "integer divide by zero", chunks |-> <<>>]
    ELSE IF chunkCount < 0
    THEN [status |-> "panic", err |-> "makeslice: len out of range", chunks |-> <<>>]
    ELSE LET fileSize == Len(data)
             chunkSize == fileSize \div chunkCount
             chunkAt(i) ==
                 LET start == i * chunkSize
                     end == IF i = chunkCount - 1 THEN fileSize ELSE start + chunkSize
                     chunkData == SubSeq(data, start + 1, end)
                 IN  FileChunk(ChunkID(fileID, i), i, fileID, Len(chunkData),
                               calculateChecksum(chunkData), chunkData)
         IN  [status |-> "ok", err |-> "",
              chunks |-> [p \in 1..chunkCount |-> chunkAt(p - 1)]]

\* metadata whose size is the number of chunks
UploadMetadataCountAsSize(fileData, fileID, chunks) ==
    [id |-> fileID, size |-> Len(chunks), checksum |-> calculateChecksum(fileData),
     chunk_count |-> Len(chunks), chunks |-> chunks]

\* the metadata literal of streamingUploadFile
UploadMetadata(fileData, fileID, chunks) ==
    [id |-> fileID, size |-> Len(fileData), checksum |-> calculateChecksum(fileData),
     chunk_count |-> Len(chunks), chunks |-> chunks]

(***************************************************************************)
(* State.                                                                  *)
(***************************************************************************)
VARIABLES
    \* codec harness: the functions of pkg/chunking applied to chosen inputs
    cPhase,     \* "init", "split", "arranged", "reconstructed", "picked", "validated"
    cFile,      \* content of the input file
    cK,         \* chunkCount argument
    cSplit,     \* result of ChunkFile(cFile, cK, CodecFileID)
    cSplitMem,  \* result of chunkFileInMemory(cFile, CodecFileID, cK)
    cUpload,    \* the metadata streamingUploadFile builds from cFile and cSplitMem
    cIn,        \* chunk slice handed to ReconstructFile
    cRecon,     \* result of ReconstructFile(cIn)
    cBase,      \* the chunk of the split that cChunk was derived from
    cChunk,     \* chunk handed to ValidateChunk
    cValid,     \* result of ValidateChunk(cChunk)
    cMeta,      \* metadata handed to ValidateFileMetadata
    cMetaValid  \* result of ValidateFileMetadata(cMeta)

metaVars == <<cMeta, cMetaValid>>

codecVars == <<cPhase, cFile, cK, cSplit, cSplitMem, cUpload, cIn, cRecon, cBase, cChunk, cValid,
               metaVars>>

VARIABLES
    chunkCount,    \* config.ChunkCount
    nodeCount,     \* len(s.storageClients)
    fileMetadata,  \* s.fileMetadata: file id -> FileMetadata
    nodeChunks,    \* per node server, memoryStorage.chunks: chunk id -> chunk
    uploads,       \* the upload requests, by file id
    downloads,     \* the download requests
    deletes,       \* the delete requests
    infos,         \* the info requests
    budget,        \* requests the run may still start, per kind
    tampered,      \* history: a node accepted a store that no upload issued
    deleted,       \* history: file ids whose metadata a Delete removed
    deleteReturned, \* history: file ids for which a Delete has answered 200
    directs,       \* the store requests sent straight to a node, with the answer
    health         \* the coordinator's health request

sysVars == <<chunkCount, nodeCount, fileMetadata, nodeChunks, uploads, downloads,
             deletes, infos, budget, tampered, deleted, deleteReturned, directs,
             health>>

VARIABLES
    \* one storage.MemoryStorage used directly by a Go caller
    msChunks,   \* ms.chunks: chunk id -> stored chunk, its Data a buffer address
    heap,       \* the byte buffers in memory: address -> bytes
    held,       \* the buffer the caller still holds: the Data of the chunk it
                \* last passed to StoreChunk ("arg") or that GetChunk last
                \* returned ("got")
    msResult,   \* the last call and what it returned
    msExpect    \* history: chunk id -> the chunk last passed to StoreChunk under
                \* that id and not deleted or cleared since

storeVars == <<msChunks, heap, held, msResult, msExpect>>

VARIABLES
    \* the coordinator's handlers at the grain of s.metadataMutex
    mu,      \* s.metadataMutex: the handler holding the write lock, the handlers
             \* holding the read lock
    lpc,     \* where each handler is
    lcalls,  \* per handler, its node calls that have not returned yet
    lreg,    \* the id named by the download, info and delete requests is in
             \* s.fileMetadata
    lhist    \* history: lreg at the start, and per handler the node calls it
             \* has issued

lockVars == <<mu, lpc, lcalls, lreg, lhist>>

VARIABLES
    \* one fan-out of the coordinator: distributeChunks, collectChunks or the
    \* delete tasks of deleteFile
    fKind,    \* which of the three
    fN,       \* len(metadata.Chunks)
    fPc,      \* where the spawning function is
    fTask,    \* where each spawned task is
    fWg,      \* the WaitGroup counter
    fChan,    \* errChan: the chunk indices whose errors are buffered
    fResult   \* what the function returned

fanVars == <<fKind, fN, fPc, fTask, fWg, fChan, fResult>>

VARIABLES
    \* a client.APIClient and the coordinator's router
    apiBase,   \* ac.baseURL: the path the client's URLs start with
    apiFiles,  \* the keys of s.fileMetadata
    apiIssued, \* file ids drawn so far
    apiCalls   \* the client's calls so far, each with its answer

apiVars == <<apiBase, apiFiles, apiIssued, apiCalls>>

vars == <<codecVars, sysVars, storeVars, lockVars, fanVars, apiVars>>

CodecFileID == 0

NoChunk == FileChunk(<<>>, -1, -1, 0, 0, NilData)

NoRecon == [status |-> "none", index |-> -1, output |-> <<>>, chunks |-> <<>>]

CodecInit ==
    /\ cPhase = "init"
    /\ cFile \in SeqsUpTo(Bytes, MaxLen)
    /\ cK \in (-1)..MaxK
    /\ cSplit = [status |-> "none", err |-> "", metadata |-> NoMetadata]
    /\ cSplitMem = [status |-> "none", err |-> "", chunks |-> <<>>]
    /\ cUpload = NoMetadata
    /\ cIn = <<>>
    /\ cRecon = NoRecon
    /\ cBase = NoChunk
    /\ cChunk = NoChunk
    /\ cValid = "none"
    /\ cMeta = NoMetadata
    /\ cMetaValid = "none"

\* both splitters are applied to the same input
CodecSplit ==
    /\ cPhase = "init"
    /\ cSplit' = ChunkFile(cFile, cK, CodecFileID)
    /\ cSplitMem' = chunkFileInMemory(cFile, CodecFileID, cK)
    /\ cUpload' = IF cSplitMem'.status = "ok"
                  THEN UploadMetadata(cFile, CodecFileID, cSplitMem'.chunks)
                  ELSE NoMetadata
    /\ cPhase' = "split"
    /\ UNCHANGED <<apiVars, fanVars, lockVars, storeVars, sysVars, metaVars, cFile, cK, cIn, cRecon, cBase, cChunk, cValid>>

\* a caller hands ReconstructFile any slice built from the chunks of the split:
\* reordered, with chunks left out, or with chunks repeated, and possibly with
\* every index one lower
CodecArrange ==
    /\ cPhase = "split"
    /\ cSplit.status = "ok"
    /\ \E n \in 0..cK, shift \in {0, 1} :
         \E pick \in [1..n -> 1..cK] :
            cIn' = [p \in 1..n |->
                      [cSplit.metadata.chunks[pick[p]] EXCEPT !.index = @ - shift]]
    /\ cPhase' = "arranged"
    /\ UNCHANGED <<apiVars, fanVars, lockVars, storeVars, sysVars, metaVars, cFile, cK, cSplit, cSplitMem, cUpload, cRecon, cBase, cChunk, cValid>>

CodecReconstruct ==
    /\ cPhase = "arranged"
    /\ cRecon' = ReconstructFile(cIn)
    /\ cPhase' = "reconstructed"
    /\ UNCHANGED <<apiVars, fanVars, lockVars, storeVars, sysVars, metaVars, cFile, cK, cSplit, cSplitMem, cUpload, cIn, cBase, cChunk, cValid>>

\* variants of a payload: itself, nil, one byte more, one byte less, first byte changed
DataVariants(d) ==
    {d, NilData, Append(d, 0)}
    \cup (IF Len(d) > 0
          THEN {SubSeq(d, 1, Len(d) - 1), [d EXCEPT ![1] = (d[1] + 1) % (ByteMax + 1)]}
          ELSE {})

\* a chunk of the split with any of data, size and checksum changed
CodecPick ==
    /\ cPhase = "split"
    /\ cSplit.status = "ok"
    /\ \E p \in 1..cK :
         LET base == cSplit.metadata.chunks[p]
         IN  /\ cBase' = base
             /\ \E d \in DataVariants(base.data), ds \in {0, 1}, dc \in {0, 1} :
                    cChunk' = [base EXCEPT !.data = d, !.size = base.size + ds,
                                           !.checksum = base.checksum + dc]
    /\ cPhase' = "picked"
    /\ UNCHANGED <<apiVars, fanVars, lockVars, storeVars, sysVars, metaVars, cFile, cK, cSplit, cSplitMem, cUpload, cIn, cRecon, cValid>>

CodecValidate ==
    /\ cPhase = "picked"
    /\ cValid' = ValidateChunk(cChunk)
    /\ cPhase' = "validated"
    /\ UNCHANGED <<apiVars, fanVars, lockVars, storeVars, sysVars, metaVars, cFile, cK, cSplit, cSplitMem, cUpload, cIn, cRecon, cBase, cChunk>>

\* variants of a chunk list: itself, two chunks swapped, the last chunk left out,
\* and one chunk with another file id, another index or another size
ChunksVariants(chunks) ==
    {chunks}
    \cup {Swap(chunks, i, j) : i, j \in DOMAIN chunks}
    \cup (IF chunks = <<>> THEN {} ELSE {SubSeq(chunks, 1, Len(chunks) - 1)})
    \cup {[chunks EXCEPT ![i].file_id = @ + 1] : i \in DOMAIN chunks}
    \cup {[chunks EXCEPT ![i].index = @ + 1] : i \in DOMAIN chunks}
    \cup {[chunks EXCEPT ![i].size = @ + 1] : i \in DOMAIN chunks}

\* the metadata of the split with any of chunk_count, size and chunks changed
CodecPickMeta ==
    /\ cPhase = "split"
    /\ cSplit.status = "ok"
    /\ \E chunks \in ChunksVariants(cSplit.metadata.chunks), dn \in {0, 1}, ds \in {0, 1} :
           cMeta' = [cSplit.metadata EXCEPT !.chunks = chunks, !.chunk_count = @ + dn,
                                           !.size = @ + ds]
    /\ cPhase' = "metaPicked"
    /\ UNCHANGED <<apiVars, fanVars, lockVars, storeVars, sysVars, cFile, cK, cSplit, cSplitMem, cUpload, cIn, cRecon, cBase, cChunk,
                   cValid, cMetaValid>>

CodecValidateMeta ==
    /\ cPhase = "metaPicked"
    /\ cMetaValid' = ValidateFileMetadata(cMeta)
    /\ cPhase' = "metaValidated"
    /\ UNCHANGED <<apiVars, fanVars, lockVars, storeVars, sysVars, cFile, cK, cSplit, cSplitMem, cUpload, cIn, cRecon, cBase, cChunk,
                   cValid, cMeta>>

NextCodec ==
    \/ CodecSplit
    \/ CodecArrange
    \/ CodecReconstruct
    \/ CodecPick
    \/ CodecValidate
    \/ CodecPickMeta
    \/ CodecValidateMeta

(***************************************************************************)
(* The wire format of a chunk (encoding/json).  A []byte is sent as a      *)
(* base64 string and nil as null: null is modelled by <<>>, a string by    *)
(* its length followed by its bytes.                                       *)
(***************************************************************************)
\* an encoder that drops empty payloads, as a field tagged omitempty would
EncodeDataEmptyNull(d) == IF d = NilData \/ d = <<>> THEN <<>> ELSE <<Len(d)>> \o d

EncodeData(d) == IF d = NilData THEN <<>> ELSE <<Len(d)>> \o d

DecodeData(e) == IF e = <<>> THEN NilData ELSE Tail(e)

\* json.Marshal(chunk)
MarshalChunk(chunk) == [chunk EXCEPT !.data = EncodeData(chunk.data)]

\* ShouldBindJSON(&chunk), json.NewDecoder(resp.Body).Decode(&chunk)
UnmarshalChunk(body) == [body EXCEPT !.data = DecodeData(body.data)]

(***************************************************************************)
(* storage.MemoryStorage: a map from chunk id to a private copy.           *)
(***************************************************************************)
MapPut(m, k, v) == [x \in (DOMAIN m) \cup {k} |-> IF x = k THEN v ELSE m[x]]

MapDel(m, k) == [x \in (DOMAIN m) \ {k} |-> m[x]]

EmptyMap == <<>>

\* a store that keeps nothing
MemStoreChunkNone(chunks, chunk) == chunks

\* the stored copy's Data is make([]byte, len(chunk.Data)) with the bytes copied:
\* never nil
MemStoreChunk(chunks, chunk) ==
    MapPut(chunks, chunk.id, [chunk EXCEPT !.data = DataBytes(@)])

MemHasChunk(chunks, chunkID) == chunkID \in DOMAIN chunks

MemDeleteChunk(chunks, chunkID) == MapDel(chunks, chunkID)

(***************************************************************************)
(* storage.MemoryStorage with its byte buffers.  A []byte is a reference   *)
(* to a buffer: chunks here carry the address of their Data in `heap`,     *)
(* NilAddr for a nil slice.  Buffers that nothing refers to are collected. *)
(***************************************************************************)
\* addresses of the heap
MaxAddr == 5
\* longest payload a caller stores
MaxStoreLen == 2
\* chunk ids a caller uses
MaxStoreIDs == 2

NilAddr == 0

\* the payloads a caller stores: nil, and one content per length
StorePayloads ==
    {NilData} \cup {[i \in 1..n |-> (i - 1) % (ByteMax + 1)] : n \in 0..MaxStoreLen}

Alloc(h) == Min((1..MaxAddr) \ DOMAIN h)

\* the bytes behind an address
BytesAt(h, a) == IF a = NilAddr THEN <<>> ELSE h[a]

\* the chunk with its Data read from the heap
Deref(chunk, h) ==
    [chunk EXCEPT !.data = IF chunk.data = NilAddr THEN NilData ELSE h[chunk.data]]

\* the store as values
View(chunks, h) == [id \in DOMAIN chunks |-> Deref(chunks[id], h)]

\* a copy that shares the source buffer
CopyDataShared(h, a) == [heap |-> h, addr |-> a]

\* Data: make([]byte, len(chunk.Data)); copy(chunkCopy.Data, chunk.Data)
CopyData(h, a) ==
    LET b == Alloc(h) IN [heap |-> MapPut(h, b, BytesAt(h, a)), addr |-> b]

\* a store that keeps the chunk already stored under the id
StoreChunkKeepFirst(chunks, h, chunk) ==
    LET c == CopyData(h, chunk.data)
    IN  [err |-> "", heap |-> c.heap,
         chunks |-> IF MemHasChunk(chunks, chunk.id) THEN chunks
                    ELSE MapPut(chunks, chunk.id, [chunk EXCEPT !.data = c.addr])]

StoreChunk(chunks, h, chunk) ==
    LET c == CopyData(h, chunk.data)
    IN  [err |-> "", heap |-> c.heap,
         chunks |-> MapPut(chunks, chunk.id, [chunk EXCEPT !.data = c.addr])]

GetChunk(chunks, h, chunkID) ==
    IF ~MemHasChunk(chunks, chunkID)
    THEN [err |-> "NotFound", heap |-> h, chunk |-> [NoChunk EXCEPT !.data = NilAddr]]
    ELSE LET c == CopyData(h, chunks[chunkID].data)
         IN  [err |-> "", heap |-> c.heap,
              chunk |-> [chunks[chunkID] EXCEPT !.data = c.addr]]

\* a delete that drops every chunk
DeleteChunkAll(chunks, chunkID) ==
    IF ~MemHasChunk(chunks, chunkID)
    THEN [err |-> "NotFound", chunks |-> chunks]
    ELSE [err |-> "", chunks |-> EmptyMap]

DeleteChunk(chunks, chunkID) ==
    IF ~MemHasChunk(chunks, chunkID)
    THEN [err |-> "NotFound", chunks |-> chunks]
    ELSE [err |-> "", chunks |-> MemDeleteChunk(chunks, chunkID)]

\* the ids appended while ranging over the map, in any order
ListChunks(chunks) ==
    {ids \in [1..Cardinality(DOMAIN chunks) -> DOMAIN chunks] :
        \A p, q \in DOMAIN ids : ids[p] = ids[q] => p = q}

\* totalSize += int64(len(chunk.Data)) over the map
RECURSIVE TotalData(_, _, _)
TotalData(chunks, h, ids) ==
    IF ids = {} THEN 0
    ELSE LET id == CHOOSE x \in ids : TRUE
         IN  Len(BytesAt(h, chunks[id].data)) + TotalData(chunks, h, ids \ {id})

\* a usage that counts chunks instead of bytes
GetMemoryUsageCount(chunks, h) == Cardinality(DOMAIN chunks)

GetMemoryUsage(chunks, h) == TotalData(chunks, h, DOMAIN chunks)

GetStorageInfo(chunks, h) ==
    [chunk_count |-> Cardinality(DOMAIN chunks),
     total_size |-> TotalData(chunks, h, DOMAIN chunks),
     storage_type |-> "memory"]

ClearAll(chunks) == EmptyMap

\* a compaction that evicts everything it counts
CompactStorageEvict(chunks) ==
    [count |-> Cardinality(DOMAIN chunks), chunks |-> EmptyMap]

\* return len(ms.chunks)
CompactStorage(chunks) == [count |-> Cardinality(DOMAIN chunks), chunks |-> chunks]

\* the buffers still referred to by the store or by the caller
CollectGarbage(h, chunks, hold) ==
    LET live == {chunks[id].data : id \in DOMAIN chunks} \cup {hold.addr}
    IN  [a \in (DOMAIN h) \cap live |-> h[a]]

(***************************************************************************)
(* MemoryStorageServer endpoints: the response status and the store after. *)
(***************************************************************************)
\* an endpoint that stores without validating
ServerStoreChunkUnchecked(chunks, body) ==
    [status |-> 200, chunks |-> MemStoreChunk(chunks, UnmarshalChunk(body))]

\* POST /api/v1/chunks
ServerStoreChunk(chunks, body) ==
    LET chunk == UnmarshalChunk(body)
    IN  IF ValidateChunk(chunk) # "ok"
        THEN [status |-> 400, chunks |-> chunks]
        ELSE [status |-> 200, chunks |-> MemStoreChunk(chunks, chunk)]

\* GET /api/v1/chunks/:id
ServerGetChunk(chunks, chunkID) ==
    IF MemHasChunk(chunks, chunkID)
    THEN [status |-> 200, body |-> MarshalChunk(chunks[chunkID])]
    ELSE [status |-> 404, body |-> MarshalChunk(NoChunk)]

\* DELETE /api/v1/chunks/:id: every error of MemoryStorage.DeleteChunk is answered 500
ServerDeleteChunk(chunks, chunkID) ==
    IF ~MemHasChunk(chunks, chunkID)
    THEN [status |-> 500, chunks |-> chunks]
    ELSE [status |-> 200, chunks |-> MemDeleteChunk(chunks, chunkID)]

\* POST /api/v1/compact
ServerCompactStorage(chunks) ==
    LET r == CompactStorage(chunks)
    IN  [status |-> 200, chunks_removed |-> r.count, chunks |-> r.chunks]

(***************************************************************************)
(* storage.StorageClient: which responses are success.                     *)
(***************************************************************************)
ClientStoreOK(status) == status = 200

ClientGetOK(status) == status = 200

ClientDeleteOK(status) == status \in {200, 404}

(***************************************************************************)
(* Coordinator helpers.                                                    *)
(***************************************************************************)
\* serverIndex := chunkIndex % len(s.storageClients)
ServerIndexShifted(chunkIndex, nodes) == (chunkIndex + 1) % nodes

ServerIndex(chunkIndex, nodes) == chunkIndex % nodes

\* the server a collect task asks
CollectServerIndex(chunkIndex, nodes) == ServerIndex(chunkIndex, nodes)

\* the server a delete task asks
DeleteServerIndex(chunkIndex, nodes) == ServerIndex(chunkIndex, nodes)

\* for err := range errChan { return err }: the error returned is the first one
\* that was sent (errors are named by the chunk index of their task)
FirstError(errChan) == errChan[1]

\* for err := range errChan { return err }: distribution failed iff an error was sent
DistributeFailedNever(errChan) == FALSE

\* a distribution that tolerates a single failed store
DistributeFailedTwice(errChan) == Len(errChan) > 1

DistributeFailed(errChan) == errChan # <<>>

\* collectChunks, for err := range errChan { return nil, err }: the collect
\* failed iff a task sent an error
CollectFailedNever(errChan) == FALSE

CollectFailed(errChan) == errChan # <<>>

\* reconstructFileInMemory: the payloads appended in slice order
Reverse(q) == [p \in 1..Len(q) |-> q[Len(q) + 1 - p]]

reconstructFileInMemoryReversed(chunks) == ConcatData(Reverse(chunks))

reconstructFileInMemory(chunks) == ConcatData(chunks)

\* metadata, exists := s.fileMetadata[fileID]
MetadataExists(meta, fileID) == fileID \in DOMAIN meta

\* deleteFile answers 200 after wg.Wait(), whatever the tasks logged
DeleteStatusSurfaced(tasks) ==
    IF \E p \in DOMAIN tasks : tasks[p] # "ok" THEN 500 ELSE 200

DeleteStatus(tasks) == 200

\* healthCheck: "healthy" unless healthyServers < s.config.ChunkCount
HealthStatusAny(healthyServers, chunks) ==
    IF healthyServers = 0 THEN "degraded" ELSE "healthy"

HealthStatus(healthyServers, chunks) ==
    IF healthyServers < chunks THEN "degraded" ELSE "healthy"

\* delete(s.fileMetadata, fileID)
DeleteMetadataKeep(meta, fileID) == meta

DeleteMetadata(meta, fileID) == MapDel(meta, fileID)

(***************************************************************************)
(* The running system: one coordinator (StreamingAPIServer) and the node   *)
(* servers it was configured with.  Every HTTP request of a per-chunk task *)
(* is one step: the node handler runs under the node's lock.  A request    *)
(* either reaches the node and is answered ("ok"), fails in transport      *)
(* before reaching it ("unreachable"), or is served while the response is  *)
(* lost, e.g. by the client timeout ("lost").                              *)
(***************************************************************************)
\* files uploaded in a run (file ids are 1..MaxFiles, fresh per upload)
MaxFiles == 2
\* longest uploaded content
MaxFileLen == 3
\* largest configured chunk count
MaxChunkCount == 2
\* largest number of configured storage servers
MaxNodes == 2
\* download requests in a run
MaxDownloads == 1
\* delete requests in a run
MaxDeletes == 1
\* chunk stores sent to a node by someone other than the coordinator
MaxDirect == 1
\* longest payload of such a store
MaxDirectLen == 1
\* info requests in a run
MaxInfos == 1

\* the uploaded contents: one per length, byte i being i mod 256 as in
\* TestChunkFileWithDifferentSizes (here modulo the number of byte values)
Contents == {[i \in 1..n |-> (i - 1) % (ByteMax + 1)] : n \in 0..MaxFileLen}

FileIDs == 1..MaxFiles

Outcomes == {"ok", "unreachable", "lost"}

Pending(n) == [p \in 1..n |-> "pending"]

\* the server each task has asked, -1 while the task has not run
NotAsked(n) == [p \in 1..n |-> -1]

\* a join that waits for the first task only
AllDoneFirst(tasks) == tasks = <<>> \/ tasks[1] # "pending"

AllDone(tasks) == \A p \in DOMAIN tasks : tasks[p] # "pending"

NoHealth ==
    [pc |-> "idle", probed |-> <<>>, healthyServers |-> 0, status |-> "",
     healthy_servers |-> 0, total_servers |-> 0]

NewDownload ==
    [pc |-> "new", fid |-> 0, metadata |-> NoMetadata, tasks |-> <<>>,
     chunks |-> <<>>, errChan |-> <<>>, status |-> 0, body |-> <<>>,
     netFail |-> FALSE, known |-> FALSE, afterUpload |-> FALSE,
     afterDelete |-> FALSE, asked |-> <<>>]

NewDelete ==
    [pc |-> "new", fid |-> 0, metadata |-> NoMetadata, tasks |-> <<>>,
     status |-> 0, known |-> FALSE, asked |-> <<>>]

\* the state after NewStreamingAPIServer and NewMemoryStorageServer, for a run
\* that may start the given numbers of requests
SysInit(nUploads, nDownloads, nDeletes, nInfos, nDirect) ==
    /\ chunkCount \in 1..MaxChunkCount
    /\ nodeCount \in 1..MaxNodes
    /\ fileMetadata = EmptyMap
    /\ nodeChunks = [n \in 0..(nodeCount - 1) |-> EmptyMap]
    /\ uploads = <<>>
    /\ downloads = <<>>
    /\ deletes = <<>>
    /\ infos = <<>>
    /\ budget = [uploads |-> nUploads, downloads |-> nDownloads,
                 deletes |-> nDeletes, infos |-> nInfos, direct |-> nDirect]
    /\ tampered = FALSE
    /\ deleted = {}
    /\ deleteReturned = {}
    /\ directs = <<>>
    /\ health = NoHealth

\* the codec harness is not running
CodecOff ==
    /\ cPhase = "off"
    /\ cFile = <<>>
    /\ cK = 0
    /\ cSplit = [status |-> "none", err |-> "", metadata |-> NoMetadata]
    /\ cSplitMem = [status |-> "none", err |-> "", chunks |-> <<>>]
    /\ cUpload = NoMetadata
    /\ cIn = <<>>
    /\ cRecon = NoRecon
    /\ cBase = NoChunk
    /\ cChunk = NoChunk
    /\ cValid = "none"
    /\ cMeta = NoMetadata
    /\ cMetaValid = "none"

\* the system is not running
SysOff ==
    /\ chunkCount = 1
    /\ nodeCount = 1
    /\ fileMetadata = EmptyMap
    /\ nodeChunks = [n \in 0..0 |-> EmptyMap]
    /\ uploads = <<>>
    /\ downloads = <<>>
    /\ deletes = <<>>
    /\ infos = <<>>
    /\ budget = [uploads |-> 0, downloads |-> 0, deletes |-> 0, infos |-> 0,
                 direct |-> 0]
    /\ tampered = FALSE
    /\ deleted = {}
    /\ deleteReturned = {}
    /\ directs = <<>>
    /\ health = NoHealth

(***************************************************************************)
(* streamingUploadFile                                                     *)
(***************************************************************************)
\* the request is read, the file id drawn, the file split and the metadata built;
\* distributeChunks has spawned one task per chunk
UploadStart(data) ==
    /\ budget.uploads > 0
    /\ budget' = [budget EXCEPT !.uploads = @ - 1]
    /\ LET fileID == Len(uploads) + 1
           split == chunkFileInMemory(data, fileID, chunkCount)
           metadata == UploadMetadata(data, fileID, split.chunks)
       IN  /\ split.status = "ok"
           /\ uploads' = Append(uploads,
                  [pc |-> "distribute", data |-> data, metadata |-> metadata,
                   tasks |-> Pending(Len(metadata.chunks)), errChan |-> <<>>,
                   status |-> 0, err |-> -1,
                   asked |-> NotAsked(Len(metadata.chunks))])
    /\ UNCHANGED <<apiVars, fanVars, lockVars, storeVars, codecVars, health, directs, infos, chunkCount, nodeCount, fileMetadata, nodeChunks,
                   downloads, deletes, tampered, deleted, deleteReturned>>

\* one task of distributeChunks: client.StoreChunk(&chunkData) on the chunk's server
StoreTask(f, p, outcome) ==
    /\ uploads[f].pc = "distribute"
    /\ uploads[f].tasks[p] = "pending"
    /\ LET chunkIndex == p - 1
           serverIndex == ServerIndex(chunkIndex, nodeCount)
           resp == ServerStoreChunk(nodeChunks[serverIndex],
                                    MarshalChunk(uploads[f].metadata.chunks[p]))
           ok == outcome = "ok" /\ ClientStoreOK(resp.status)
       IN  /\ nodeChunks' = IF outcome = "unreachable" THEN nodeChunks
                            ELSE [nodeChunks EXCEPT ![serverIndex] = resp.chunks]
           /\ uploads' = [uploads EXCEPT
                  ![f].tasks[p] = IF ok THEN "ok" ELSE "err",
                  ![f].asked[p] = serverIndex,
                  ![f].errChan = IF ok THEN @ ELSE Append(@, chunkIndex)]
    /\ UNCHANGED <<apiVars, fanVars, lockVars, storeVars, codecVars, health, directs, infos, chunkCount, nodeCount, fileMetadata, downloads, deletes,
                   budget, tampered, deleted, deleteReturned>>

\* wg.Wait() has returned: the first error is answered 500, else the metadata is
\* registered under the write lock and answered 200
UploadJoin(f) ==
    /\ uploads[f].pc = "distribute"
    /\ AllDone(uploads[f].tasks)
    /\ IF DistributeFailed(uploads[f].errChan)
       THEN /\ uploads' = [uploads EXCEPT ![f].pc = "done", ![f].status = 500,
                                          ![f].err = FirstError(uploads[f].errChan)]
            /\ UNCHANGED fileMetadata
       ELSE /\ fileMetadata' = MapPut(fileMetadata, f, uploads[f].metadata)
            /\ uploads' = [uploads EXCEPT ![f].pc = "done", ![f].status = 200]
    /\ UNCHANGED <<apiVars, fanVars, lockVars, storeVars, codecVars, health, directs, infos, chunkCount, nodeCount, nodeChunks, downloads, deletes,
                   budget, tampered, deleted, deleteReturned>>

(***************************************************************************)
(* streamingDownloadFile                                                   *)
(***************************************************************************)
\* the metadata lookup under the read lock; collectChunks has spawned its tasks
DownloadStart(fileID) ==
    /\ budget.downloads > 0
    /\ budget' = [budget EXCEPT !.downloads = @ - 1]
    /\ LET exists == MetadataExists(fileMetadata, fileID)
           metadata == IF exists THEN fileMetadata[fileID] ELSE NoMetadata
           base == [NewDownload EXCEPT
                       !.fid = fileID,
                       !.known = fileID \in DOMAIN fileMetadata,
                       !.afterUpload = /\ fileID <= Len(uploads)
                                       /\ uploads[fileID].status = 200,
                       !.afterDelete = fileID \in deleteReturned]
       IN  downloads' = Append(downloads,
               IF ~exists
               THEN [base EXCEPT !.pc = "done", !.status = 404]
               ELSE [base EXCEPT !.pc = "collect", !.metadata = metadata,
                                 !.tasks = Pending(Len(metadata.chunks)),
                                 !.asked = NotAsked(Len(metadata.chunks)),
                                 !.chunks = [p \in 1..Len(metadata.chunks) |-> NoChunk]])
    /\ UNCHANGED <<apiVars, fanVars, lockVars, storeVars, codecVars, health, directs, infos, chunkCount, nodeCount, fileMetadata, nodeChunks, uploads,
                   deletes, tampered, deleted, deleteReturned>>

\* one task of collectChunks: client.GetChunk(chunkMetadata.ID)
FetchTask(d, p, outcome) ==
    /\ downloads[d].pc = "collect"
    /\ downloads[d].tasks[p] = "pending"
    /\ outcome \in {"ok", "unreachable"}
    /\ LET chunkIndex == p - 1
           serverIndex == CollectServerIndex(chunkIndex, nodeCount)
           resp == ServerGetChunk(nodeChunks[serverIndex],
                                  downloads[d].metadata.chunks[p].id)
           ok == outcome = "ok" /\ ClientGetOK(resp.status)
       IN  downloads' = [downloads EXCEPT
               ![d].tasks[p] = IF ok THEN "ok" ELSE "err",
               ![d].asked[p] = serverIndex,
               ![d].chunks[p] = IF ok THEN UnmarshalChunk(resp.body) ELSE @,
               ![d].errChan = IF ok THEN @ ELSE Append(@, chunkIndex),
               ![d].netFail = @ \/ outcome = "unreachable"]
    /\ UNCHANGED <<apiVars, fanVars, lockVars, storeVars, codecVars, health, directs, infos, chunkCount, nodeCount, fileMetadata, nodeChunks, uploads,
                   deletes, budget, tampered, deleted, deleteReturned>>

\* wg.Wait() has returned: an error is answered 500, else the payloads are
\* concatenated and sent with status 200
DownloadJoin(d) ==
    /\ downloads[d].pc = "collect"
    /\ AllDone(downloads[d].tasks)
    /\ downloads' = [downloads EXCEPT ![d] =
           IF CollectFailed(downloads[d].errChan)
           THEN [@ EXCEPT !.pc = "done", !.status = 500]
           ELSE [@ EXCEPT !.pc = "done", !.status = 200,
                          !.body = reconstructFileInMemory(downloads[d].chunks)]]
    /\ UNCHANGED <<apiVars, fanVars, lockVars, storeVars, codecVars, health, directs, infos, chunkCount, nodeCount, fileMetadata, nodeChunks, uploads,
                   deletes, budget, tampered, deleted, deleteReturned>>

(***************************************************************************)
(* getFileInfo: the lookup under the read lock, answered 404 or 200 with   *)
(* the metadata                                                            *)
(***************************************************************************)
InfoRequest(fileID) ==
    /\ budget.infos > 0
    /\ budget' = [budget EXCEPT !.infos = @ - 1]
    /\ LET exists == MetadataExists(fileMetadata, fileID)
       IN  infos' = Append(infos,
               [fid |-> fileID,
                status |-> IF exists THEN 200 ELSE 404,
                metadata |-> IF exists THEN fileMetadata[fileID] ELSE NoMetadata,
                known |-> fileID \in DOMAIN fileMetadata,
                afterDelete |-> fileID \in deleteReturned])
    /\ UNCHANGED <<apiVars, fanVars, lockVars, storeVars, codecVars, health, directs, chunkCount, nodeCount, fileMetadata, nodeChunks, uploads,
                   downloads, deletes, tampered, deleted, deleteReturned>>

(***************************************************************************)
(* deleteFile                                                              *)
(***************************************************************************)
\* lookup and removal under the write lock; the delete tasks are spawned
DeleteStart(fileID) ==
    /\ budget.deletes > 0
    /\ budget' = [budget EXCEPT !.deletes = @ - 1]
    /\ IF ~MetadataExists(fileMetadata, fileID)
       THEN /\ deletes' = Append(deletes,
                   [NewDelete EXCEPT !.pc = "done", !.fid = fileID, !.status = 404])
            /\ UNCHANGED <<fileMetadata, deleted>>
       ELSE /\ deletes' = Append(deletes,
                   [NewDelete EXCEPT
                       !.pc = "fanout", !.fid = fileID, !.known = TRUE,
                       !.metadata = fileMetadata[fileID],
                       !.asked = NotAsked(Len(fileMetadata[fileID].chunks)),
                       !.tasks = Pending(Len(fileMetadata[fileID].chunks))])
            /\ fileMetadata' = DeleteMetadata(fileMetadata, fileID)
            /\ deleted' = deleted \cup {fileID}
    /\ UNCHANGED <<apiVars, fanVars, lockVars, storeVars, codecVars, health, directs, infos, chunkCount, nodeCount, nodeChunks, uploads, downloads,
                   tampered, deleteReturned>>

\* one delete task: client.DeleteChunk(chunkData.ID); a failure is only logged.
\* The task ends "ok", "err" (the node did not delete) or "lost" (the node
\* deleted, the client saw an error)
DeleteTask(x, p, outcome) ==
    /\ deletes[x].pc = "fanout"
    /\ deletes[x].tasks[p] = "pending"
    /\ LET chunkIndex == p - 1
           serverIndex == DeleteServerIndex(chunkIndex, nodeCount)
           resp == ServerDeleteChunk(nodeChunks[serverIndex],
                                     deletes[x].metadata.chunks[p].id)
           ok == outcome = "ok" /\ ClientDeleteOK(resp.status)
       IN  /\ nodeChunks' = IF outcome = "unreachable" THEN nodeChunks
                            ELSE [nodeChunks EXCEPT ![serverIndex] = resp.chunks]
           /\ deletes' = [deletes EXCEPT
                  ![x].asked[p] = serverIndex,
                  ![x].tasks[p] =
                      IF ok THEN "ok" ELSE IF outcome = "lost" THEN "lost" ELSE "err"]
    /\ UNCHANGED <<apiVars, fanVars, lockVars, storeVars, codecVars, health, directs, infos, chunkCount, nodeCount, fileMetadata, uploads, downloads,
                   budget, tampered, deleted, deleteReturned>>

\* wg.Wait() has returned: answered 200 whatever the tasks logged
DeleteJoin(x) ==
    /\ deletes[x].pc = "fanout"
    /\ AllDone(deletes[x].tasks)
    /\ deletes' = [deletes EXCEPT ![x].pc = "done",
                                  ![x].status = DeleteStatus(deletes[x].tasks)]
    /\ deleteReturned' = deleteReturned \cup {deletes[x].fid}
    /\ UNCHANGED <<apiVars, fanVars, lockVars, storeVars, codecVars, health, directs, infos, chunkCount, nodeCount, fileMetadata, nodeChunks, uploads,
                   downloads, budget, tampered, deleted>>

(***************************************************************************)
(* A store sent straight to a node's POST /api/v1/chunks endpoint, not by  *)
(* the coordinator: a chunk record under the id of a chunk of an uploaded  *)
(* file (the id holds the file's uuid), sent to the server of that chunk.  *)
(***************************************************************************)
DirectStore(fileID, chunkIndex, data, ds) ==
    /\ budget.direct > 0
    /\ budget' = [budget EXCEPT !.direct = @ - 1]
    /\ LET n == ServerIndex(chunkIndex, nodeCount)
           chunk == FileChunk(ChunkID(fileID, chunkIndex), chunkIndex, fileID,
                              DataLen(data) + ds,
                              calculateChecksum(DataBytes(data)), data)
           resp == ServerStoreChunk(nodeChunks[n], MarshalChunk(chunk))
       IN  /\ nodeChunks' = [nodeChunks EXCEPT ![n] = resp.chunks]
           /\ tampered' = (tampered \/ resp.status = 200)
           /\ directs' = Append(directs,
                  [chunk |-> chunk, node |-> n, status |-> resp.status,
                   changed |-> resp.chunks # nodeChunks[n],
                   stored |-> /\ MemHasChunk(resp.chunks, chunk.id)
                              /\ resp.chunks[chunk.id] = chunk])
    /\ UNCHANGED <<apiVars, fanVars, lockVars, storeVars, codecVars, health, infos, chunkCount, nodeCount, fileMetadata, uploads, downloads,
                   deletes, deleted, deleteReturned>>

(***************************************************************************)
(* StreamingAPIServer.healthCheck: the storage clients are asked one after *)
(* the other; a node's /health answers 200 whenever it is reached.         *)
(***************************************************************************)
\* largest number of storage servers of a health request
MaxHealthNodes == 3
\* largest configured chunk count of a health request
MaxHealthChunkCount == 4

HealthStart ==
    /\ health.pc = "idle"
    /\ health' = [health EXCEPT !.pc = "probing"]
    /\ UNCHANGED <<apiVars, fanVars, lockVars, storeVars, codecVars, directs, infos, chunkCount, nodeCount,
                   fileMetadata, nodeChunks, uploads, downloads, deletes, budget,
                   tampered, deleted, deleteReturned>>

\* client.HealthCheck() of the next client
HealthProbe(outcome) ==
    /\ health.pc = "probing"
    /\ Len(health.probed) < nodeCount
    /\ health' = [health EXCEPT
           !.probed = Append(@, outcome),
           !.healthyServers = IF outcome = "ok" THEN @ + 1 ELSE @]
    /\ UNCHANGED <<apiVars, fanVars, lockVars, storeVars, codecVars, directs, infos, chunkCount, nodeCount,
                   fileMetadata, nodeChunks, uploads, downloads, deletes, budget,
                   tampered, deleted, deleteReturned>>

\* the loop is over: the summary is answered with status 200
HealthAnswer ==
    /\ health.pc = "probing"
    /\ Len(health.probed) = nodeCount
    /\ health' = [health EXCEPT
           !.pc = "done",
           !.status = HealthStatus(health.healthyServers, chunkCount),
           !.healthy_servers = health.healthyServers,
           !.total_servers = nodeCount]
    /\ UNCHANGED <<apiVars, fanVars, lockVars, storeVars, codecVars, directs, infos, chunkCount, nodeCount,
                   fileMetadata, nodeChunks, uploads, downloads, deletes, budget,
                   tampered, deleted, deleteReturned>>

NextHealth ==
    \/ HealthStart
    \/ \E o \in Outcomes : HealthProbe(o)
    \/ HealthAnswer

\* a coordinator with no file traffic, for any configuration
HealthInit ==
    /\ chunkCount \in 1..MaxHealthChunkCount
    /\ nodeCount \in 1..MaxHealthNodes
    /\ fileMetadata = EmptyMap
    /\ nodeChunks = [n \in 0..(nodeCount - 1) |-> EmptyMap]
    /\ uploads = <<>>
    /\ downloads = <<>>
    /\ deletes = <<>>
    /\ infos = <<>>
    /\ budget = [uploads |-> 0, downloads |-> 0, deletes |-> 0, infos |-> 0,
                 direct |-> 0]
    /\ tampered = FALSE
    /\ deleted = {}
    /\ deleteReturned = {}
    /\ directs = <<>>
    /\ health = NoHealth

Next ==
    \/ \E data \in Contents : UploadStart(data)
    \/ \E f \in 1..Len(uploads), p \in 1..chunkCount, o \in Outcomes : StoreTask(f, p, o)
    \/ \E f \in 1..Len(uploads) : UploadJoin(f)
    \/ \E fileID \in FileIDs : DownloadStart(fileID)
    \/ \E d \in 1..Len(downloads), p \in 1..chunkCount, o \in Outcomes : FetchTask(d, p, o)
    \/ \E d \in 1..Len(downloads) : DownloadJoin(d)
    \/ \E fileID \in FileIDs : DeleteStart(fileID)
    \/ \E x \in 1..Len(deletes), p \in 1..chunkCount, o \in Outcomes : DeleteTask(x, p, o)
    \/ \E x \in 1..Len(deletes) : DeleteJoin(x)

\* the run with info requests, in which nodes also receive stores from outside
\* the coordinator
NextOpen ==
    \/ Next
    \/ \E fileID \in FileIDs : InfoRequest(fileID)
    \/ \E fileID \in 1..Len(uploads), i \in 0..(chunkCount - 1),
          data \in SeqsUpTo(Bytes, MaxDirectLen) \cup {NilData}, ds \in {0, 1} :
            DirectStore(fileID, i, data, ds)

(***************************************************************************)
(* A Go caller of one MemoryStorage.  Every method runs under ms.mutex, so *)
(* each call is one step.  Between calls the caller may write into the     *)
(* buffers it holds.                                                       *)
(***************************************************************************)
StoreIDs == {ChunkID(CodecFileID, i) : i \in 0..(MaxStoreIDs - 1)}

NoInfo == [chunk_count |-> 0, total_size |-> 0, storage_type |-> ""]

NoResult ==
    [op |-> "none", id |-> <<>>, err |-> "", chunk |-> NoChunk, count |-> 0,
     ids |-> <<>>, info |-> NoInfo, before |-> EmptyMap]

\* the state after NewMemoryStorage
StoreInit ==
    /\ msChunks = EmptyMap
    /\ heap = EmptyMap
    /\ held = [addr |-> NilAddr, from |-> "none"]
    /\ msResult = NoResult
    /\ msExpect = EmptyMap

\* the caller builds chunk i of a file around a fresh buffer (or a nil slice) and
\* calls StoreChunk
MSStore(i, payload) ==
    LET a == IF payload = NilData THEN NilAddr ELSE Alloc(heap)
        h1 == IF payload = NilData THEN heap ELSE MapPut(heap, a, payload)
        chunk == FileChunk(ChunkID(CodecFileID, i), i, CodecFileID, DataLen(payload),
                           calculateChecksum(DataBytes(payload)), a)
        r == StoreChunk(msChunks, h1, chunk)
        hold == [addr |-> a, from |-> IF a = NilAddr THEN "none" ELSE "arg"]
    IN  /\ msChunks' = r.chunks
        /\ held' = hold
        /\ heap' = CollectGarbage(r.heap, r.chunks, hold)
        /\ msResult' = [NoResult EXCEPT !.op = "store", !.id = chunk.id, !.err = r.err,
                                        !.chunk = Deref(chunk, h1),
                                        !.before = View(msChunks, heap)]
        /\ msExpect' = MapPut(msExpect, chunk.id, Deref(chunk, h1))
        /\ UNCHANGED <<apiVars, fanVars, lockVars, codecVars, sysVars>>

MSGet(chunkID) ==
    LET r == GetChunk(msChunks, heap, chunkID)
        hold == [addr |-> r.chunk.data,
                 from |-> IF r.chunk.data = NilAddr THEN "none" ELSE "got"]
    IN  /\ held' = hold
        /\ heap' = CollectGarbage(r.heap, msChunks, hold)
        /\ msResult' = [NoResult EXCEPT !.op = "get", !.id = chunkID, !.err = r.err,
                                        !.chunk = Deref(r.chunk, r.heap)]
        /\ UNCHANGED <<apiVars, fanVars, lockVars, codecVars, sysVars, msChunks, msExpect>>

MSDelete(chunkID) ==
    LET r == DeleteChunk(msChunks, chunkID)
    IN  /\ msChunks' = r.chunks
        /\ heap' = CollectGarbage(heap, r.chunks, held)
        /\ msResult' = [NoResult EXCEPT !.op = "delete", !.id = chunkID, !.err = r.err,
                                        !.before = View(msChunks, heap)]
        /\ msExpect' = [id \in (DOMAIN msExpect) \ {chunkID} |-> msExpect[id]]
        /\ UNCHANGED <<apiVars, fanVars, lockVars, codecVars, sysVars, held>>

MSList ==
    /\ \E ids \in ListChunks(msChunks) :
          msResult' = [NoResult EXCEPT !.op = "list", !.ids = ids]
    /\ UNCHANGED <<apiVars, fanVars, lockVars, codecVars, sysVars, msChunks, heap, held, msExpect>>

MSInfo ==
    /\ msResult' = [NoResult EXCEPT !.op = "info",
                                    !.info = GetStorageInfo(msChunks, heap)]
    /\ UNCHANGED <<apiVars, fanVars, lockVars, codecVars, sysVars, msChunks, heap, held, msExpect>>

MSUsage ==
    /\ msResult' = [NoResult EXCEPT !.op = "usage",
                                    !.count = GetMemoryUsage(msChunks, heap)]
    /\ UNCHANGED <<apiVars, fanVars, lockVars, codecVars, sysVars, msChunks, heap, held, msExpect>>

MSClear ==
    /\ msChunks' = ClearAll(msChunks)
    /\ heap' = CollectGarbage(heap, ClearAll(msChunks), held)
    /\ msResult' = [NoResult EXCEPT !.op = "clear", !.before = View(msChunks, heap)]
    /\ msExpect' = <<>>
    /\ UNCHANGED <<apiVars, fanVars, lockVars, codecVars, sysVars, held>>

\* POST /api/v1/compact: count is the chunks_removed of the response
MSCompact ==
    LET r == ServerCompactStorage(msChunks)
    IN  /\ msChunks' = r.chunks
        /\ heap' = CollectGarbage(heap, r.chunks, held)
        /\ msResult' = [NoResult EXCEPT !.op = "compact", !.count = r.chunks_removed,
                                        !.before = View(msChunks, heap)]
        /\ UNCHANGED <<apiVars, fanVars, lockVars, codecVars, sysVars, held, msExpect>>

\* a StorageClient.DeleteChunk against the node's DELETE /api/v1/chunks/:id:
\* count is the status of the response, err what the client returns
MSDeleteRequest(chunkID) ==
    LET resp == ServerDeleteChunk(msChunks, chunkID)
    IN  /\ msChunks' = resp.chunks
        /\ heap' = CollectGarbage(heap, resp.chunks, held)
        /\ msResult' = [NoResult EXCEPT
               !.op = "deleteRequest", !.id = chunkID, !.count = resp.status,
               !.err = IF ClientDeleteOK(resp.status) THEN "" ELSE "RemoteError",
               !.before = View(msChunks, heap)]
        /\ msExpect' = [id \in (DOMAIN msExpect) \ {chunkID} |-> msExpect[id]]
        /\ UNCHANGED <<apiVars, fanVars, lockVars, codecVars, sysVars, held>>

\* the caller overwrites the first byte of the buffer it holds
MSMutate ==
    /\ held.addr # NilAddr
    /\ Len(heap[held.addr]) > 0
    /\ heap' = [heap EXCEPT ![held.addr][1] = (@ + 1) % (ByteMax + 1)]
    /\ msResult' = [NoResult EXCEPT !.op = "mutate", !.before = View(msChunks, heap)]
    /\ UNCHANGED <<apiVars, fanVars, lockVars, codecVars, sysVars, msChunks, held, msExpect>>

NextStore ==
    \/ \E i \in 0..(MaxStoreIDs - 1), payload \in StorePayloads : MSStore(i, payload)
    \/ \E chunkID \in StoreIDs : MSGet(chunkID)
    \/ \E chunkID \in StoreIDs : MSDelete(chunkID)
    \/ \E chunkID \in StoreIDs : MSDeleteRequest(chunkID)
    \/ MSList
    \/ MSInfo
    \/ MSUsage
    \/ MSClear
    \/ MSCompact
    \/ MSMutate

(***************************************************************************)
(* The handlers of the coordinator at the grain of the metadata lock: one  *)
(* request of each kind, each stepping through its lock operations and its *)
(* node calls.  The upload registers a new id; download, info and delete   *)
(* name one id.  sync.RWMutex: Lock waits for no writer and no reader,     *)
(* RLock for no writer.                                                    *)
(***************************************************************************)
\* node calls a handler's fan-out issues
MaxLockCalls == 2

\* two delete requests name the same id
Deleters == {"delete", "delete2"}

Handlers == {"upload", "download", "info", "list", "health"} \cup Deleters

\* a write lock that waits for the readers only
CanLockShared(m) == m.readers = {}

CanLock(m) == m.writer = "none" /\ m.readers = {}

CanRLock(m) == m.writer = "none"

Lock(m, h) == [m EXCEPT !.writer = h]

RLock(m, h) == [m EXCEPT !.readers = @ \cup {h}]

\* an unlock that is deferred to the handler's return
UnlockDeferred(m, h) == m

Unlock(m, h) == [m EXCEPT !.writer = "none"]

RUnlock(m, h) == [m EXCEPT !.readers = @ \ {h}]

\* the handler's go statements: n node calls are issued
Issue(hist, h, n) == [hist EXCEPT !.issued[h] = @ + n]

LockOff ==
    /\ mu = [writer |-> "none", readers |-> {}]
    /\ lpc = [h \in Handlers |-> "start"]
    /\ lcalls = [h \in Handlers |-> 0]
    /\ lreg = FALSE
    /\ lhist = [reg0 |-> FALSE, issued |-> [h \in Handlers |-> 0]]

LockInit ==
    /\ mu = [writer |-> "none", readers |-> {}]
    /\ lpc = [h \in Handlers |-> "start"]
    /\ lcalls = [h \in Handlers |-> 0]
    /\ lreg \in BOOLEAN
    /\ lhist = [reg0 |-> lreg, issued |-> [h \in Handlers |-> 0]]

\* streamingUploadFile up to distributeChunks' go statements
LUploadSpawn ==
    /\ lpc["upload"] = "start"
    /\ lpc' = [lpc EXCEPT !["upload"] = "distribute"]
    /\ lcalls' = [lcalls EXCEPT !["upload"] = MaxLockCalls]
    /\ lhist' = Issue(lhist, "upload", MaxLockCalls)
    /\ UNCHANGED <<apiVars, fanVars, codecVars, sysVars, storeVars, mu, lreg>>

\* a node call of a handler returns, with a result or an error
LCallReturn(h) ==
    /\ lcalls[h] > 0
    /\ lcalls' = [lcalls EXCEPT ![h] = @ - 1]
    /\ UNCHANGED <<apiVars, fanVars, codecVars, sysVars, storeVars, mu, lpc, lreg, lhist>>

\* wg.Wait() returns; a failed distribution is answered 500
LUploadJoin(failed) ==
    /\ lpc["upload"] = "distribute"
    /\ lcalls["upload"] = 0
    /\ lpc' = [lpc EXCEPT !["upload"] = IF failed THEN "failed" ELSE "joined"]
    /\ UNCHANGED <<apiVars, fanVars, codecVars, sysVars, storeVars, mu, lcalls, lreg, lhist>>

\* s.metadataMutex.Lock()
LUploadLock ==
    /\ lpc["upload"] = "joined"
    /\ CanLock(mu)
    /\ mu' = Lock(mu, "upload")
    /\ lpc' = [lpc EXCEPT !["upload"] = "locked"]
    /\ UNCHANGED <<apiVars, fanVars, codecVars, sysVars, storeVars, lcalls, lreg, lhist>>

\* s.fileMetadata[fileID] = metadata; s.metadataMutex.Unlock(); the answer
LUploadUnlock ==
    /\ lpc["upload"] = "locked"
    /\ mu' = Unlock(mu, "upload")
    /\ lpc' = [lpc EXCEPT !["upload"] = "done"]
    /\ UNCHANGED <<apiVars, fanVars, codecVars, sysVars, storeVars, lcalls, lreg, lhist>>

\* s.metadataMutex.RLock() of streamingDownloadFile
LDownloadRLock ==
    /\ lpc["download"] = "start"
    /\ CanRLock(mu)
    /\ mu' = RLock(mu, "download")
    /\ lpc' = [lpc EXCEPT !["download"] = "rlocked"]
    /\ UNCHANGED <<apiVars, fanVars, codecVars, sysVars, storeVars, lcalls, lreg, lhist>>

\* the lookup and RUnlock(); 404, or collectChunks' go statements
LDownloadRUnlock ==
    /\ lpc["download"] = "rlocked"
    /\ mu' = RUnlock(mu, "download")
    /\ lpc' = [lpc EXCEPT !["download"] = IF lreg THEN "collect" ELSE "notfound"]
    /\ lcalls' = [lcalls EXCEPT !["download"] = IF lreg THEN MaxLockCalls ELSE 0]
    /\ lhist' = Issue(lhist, "download", IF lreg THEN MaxLockCalls ELSE 0)
    /\ UNCHANGED <<apiVars, fanVars, codecVars, sysVars, storeVars, lreg>>

LDownloadJoin ==
    /\ lpc["download"] = "collect"
    /\ lcalls["download"] = 0
    /\ lpc' = [lpc EXCEPT !["download"] = "done"]
    /\ UNCHANGED <<apiVars, fanVars, codecVars, sysVars, storeVars, mu, lcalls, lreg, lhist>>

\* getFileInfo
LInfoRLock ==
    /\ lpc["info"] = "start"
    /\ CanRLock(mu)
    /\ mu' = RLock(mu, "info")
    /\ lpc' = [lpc EXCEPT !["info"] = "rlocked"]
    /\ UNCHANGED <<apiVars, fanVars, codecVars, sysVars, storeVars, lcalls, lreg, lhist>>

LInfoRUnlock ==
    /\ lpc["info"] = "rlocked"
    /\ mu' = RUnlock(mu, "info")
    /\ lpc' = [lpc EXCEPT !["info"] = "done"]
    /\ UNCHANGED <<apiVars, fanVars, codecVars, sysVars, storeVars, lcalls, lreg, lhist>>

\* s.metadataMutex.Lock() of deleteFile
LDeleteLock(h) ==
    /\ lpc[h] = "start"
    /\ CanLock(mu)
    /\ mu' = Lock(mu, h)
    /\ lpc' = [lpc EXCEPT ![h] = "locked"]
    /\ UNCHANGED <<apiVars, fanVars, codecVars, sysVars, storeVars, lcalls, lreg, lhist>>

\* metadata, exists := s.fileMetadata[fileID]
LDeleteLookup(h) ==
    /\ lpc[h] = "locked"
    /\ lpc' = [lpc EXCEPT ![h] = IF lreg THEN "found" ELSE "absent"]
    /\ UNCHANGED <<apiVars, fanVars, codecVars, sysVars, storeVars, mu, lcalls, lreg, lhist>>

\* !exists: Unlock() and 404
LDeleteNotFound(h) ==
    /\ lpc[h] = "absent"
    /\ mu' = Unlock(mu, h)
    /\ lpc' = [lpc EXCEPT ![h] = "notfound"]
    /\ UNCHANGED <<apiVars, fanVars, codecVars, sysVars, storeVars, lcalls, lreg, lhist>>

\* delete(s.fileMetadata, fileID), Unlock() and the go statements
LDeleteRemove(h) ==
    /\ lpc[h] = "found"
    /\ lreg' = FALSE
    /\ mu' = Unlock(mu, h)
    /\ lpc' = [lpc EXCEPT ![h] = "fanout"]
    /\ lcalls' = [lcalls EXCEPT ![h] = MaxLockCalls]
    /\ lhist' = Issue(lhist, h, MaxLockCalls)
    /\ UNCHANGED <<apiVars, fanVars, codecVars, sysVars, storeVars>>

\* wg.Wait() returns; 200
LDeleteJoin(h) ==
    /\ lpc[h] = "fanout"
    /\ lcalls[h] = 0
    /\ lpc' = [lpc EXCEPT ![h] = "done"]
    /\ UNCHANGED <<apiVars, fanVars, codecVars, sysVars, storeVars, mu, lcalls, lreg, lhist>>

\* listFiles: RLock(); defer RUnlock()
LListRLock ==
    /\ lpc["list"] = "start"
    /\ CanRLock(mu)
    /\ mu' = RLock(mu, "list")
    /\ lpc' = [lpc EXCEPT !["list"] = "rlocked"]
    /\ UNCHANGED <<apiVars, fanVars, codecVars, sysVars, storeVars, lcalls, lreg, lhist>>

\* the ids are listed and answered; the deferred RUnlock() runs
LListRUnlock ==
    /\ lpc["list"] = "rlocked"
    /\ mu' = RUnlock(mu, "list")
    /\ lpc' = [lpc EXCEPT !["list"] = "done"]
    /\ UNCHANGED <<apiVars, fanVars, codecVars, sysVars, storeVars, lcalls, lreg, lhist>>

\* healthCheck asks its one client, then answers
LHealthProbe ==
    /\ lpc["health"] = "start"
    /\ lpc' = [lpc EXCEPT !["health"] = "probing"]
    /\ lcalls' = [lcalls EXCEPT !["health"] = 1]
    /\ lhist' = Issue(lhist, "health", 1)
    /\ UNCHANGED <<apiVars, fanVars, codecVars, sysVars, storeVars, mu, lreg>>

LHealthAnswer ==
    /\ lpc["health"] = "probing"
    /\ lcalls["health"] = 0
    /\ lpc' = [lpc EXCEPT !["health"] = "done"]
    /\ UNCHANGED <<apiVars, fanVars, codecVars, sysVars, storeVars, mu, lcalls, lreg, lhist>>

NextLock ==
    \/ LUploadSpawn
    \/ \E h \in Handlers : LCallReturn(h)
    \/ \E failed \in BOOLEAN : LUploadJoin(failed)
    \/ LUploadLock
    \/ LUploadUnlock
    \/ LDownloadRLock
    \/ LDownloadRUnlock
    \/ LDownloadJoin
    \/ LInfoRLock
    \/ LInfoRUnlock
    \/ \E h \in Deleters : LDeleteLock(h)
    \/ \E h \in Deleters : LDeleteLookup(h)
    \/ \E h \in Deleters : LDeleteNotFound(h)
    \/ \E h \in Deleters : LDeleteRemove(h)
    \/ \E h \in Deleters : LDeleteJoin(h)
    \/ LListRLock
    \/ LListRUnlock
    \/ LHealthProbe
    \/ LHealthAnswer

(***************************************************************************)
(* One fan-out at the grain of its goroutines: the loop that spawns a task *)
(* per chunk, each task's node call, its send on the buffered error        *)
(* channel and its wg.Done(), and the function's wg.Wait(), close and      *)
(* range.  A send on a channel blocks while the buffer is full; nothing    *)
(* receives before wg.Wait() has returned.                                 *)
(***************************************************************************)
\* most chunks of the file
MaxFanTasks == 3

FanKinds == {"distribute", "collect", "delete"}

\* a channel holding one error
CapacityOne(n) == 1

\* make(chan error, len(metadata.Chunks))
Capacity(n) == n

FanOff ==
    /\ fKind = "none"
    /\ fN = 0
    /\ fPc = "off"
    /\ fTask = <<>>
    /\ fWg = 0
    /\ fChan = <<>>
    /\ fResult = "none"

FanInit ==
    /\ fKind \in FanKinds
    /\ fN \in 1..MaxFanTasks
    /\ fPc = "spawn"
    /\ fTask = <<>>
    /\ fWg = 0
    /\ fChan = <<>>
    /\ fResult = "none"

\* one iteration of the range loop: wg.Add(1); go func
FSpawn ==
    /\ fPc = "spawn"
    /\ Len(fTask) < fN
    /\ fWg' = fWg + 1
    /\ fTask' = Append(fTask, "call")
    /\ UNCHANGED <<apiVars, codecVars, sysVars, storeVars, lockVars, fKind, fN, fPc, fChan, fResult>>

\* the task's node call returns; a delete task only logs its error
FCallReturn(t, failed) ==
    /\ t \in DOMAIN fTask
    /\ fTask[t] = "call"
    /\ fTask' = [fTask EXCEPT ![t] = IF failed /\ fKind # "delete" THEN "report"
                                     ELSE "exit"]
    /\ UNCHANGED <<apiVars, codecVars, sysVars, storeVars, lockVars, fKind, fN, fPc, fWg, fChan, fResult>>

\* errChan <- err
FReport(t) ==
    /\ t \in DOMAIN fTask
    /\ fTask[t] = "report"
    /\ Len(fChan) < Capacity(fN)
    /\ fChan' = Append(fChan, t - 1)
    /\ fTask' = [fTask EXCEPT ![t] = "exit"]
    /\ UNCHANGED <<apiVars, codecVars, sysVars, storeVars, lockVars, fKind, fN, fPc, fWg, fResult>>

\* the deferred wg.Done()
FDone(t) ==
    /\ t \in DOMAIN fTask
    /\ fTask[t] = "exit"
    /\ fWg' = fWg - 1
    /\ fTask' = [fTask EXCEPT ![t] = "done"]
    /\ UNCHANGED <<apiVars, codecVars, sysVars, storeVars, lockVars, fKind, fN, fPc, fChan, fResult>>

\* wg.Wait() returns; deleteFile answers, the others close errChan
FWait ==
    /\ fPc = "spawn"
    /\ Len(fTask) = fN
    /\ fWg = 0
    /\ fPc' = IF fKind = "delete" THEN "returned" ELSE "range"
    /\ fResult' = IF fKind = "delete" THEN "ok" ELSE fResult
    /\ UNCHANGED <<apiVars, codecVars, sysVars, storeVars, lockVars, fKind, fN, fTask, fWg, fChan>>

\* for err := range errChan { return err }; return nil
FRange ==
    /\ fPc = "range"
    /\ fPc' = "returned"
    /\ fResult' = IF fChan # <<>> THEN "err" ELSE "ok"
    /\ UNCHANGED <<apiVars, codecVars, sysVars, storeVars, lockVars, fKind, fN, fTask, fWg, fChan>>

NextFan ==
    \/ FSpawn
    \/ \E t \in 1..MaxFanTasks, failed \in BOOLEAN : FCallReturn(t, failed)
    \/ \E t \in 1..MaxFanTasks : FReport(t)
    \/ \E t \in 1..MaxFanTasks : FDone(t)
    \/ FWait
    \/ FRange

\* every node call eventually returns, and the scheduler runs every goroutine
\* that can take a step
FanFairness ==
    /\ WF_vars(FSpawn)
    /\ \A t \in 1..MaxFanTasks : WF_vars(\E failed \in BOOLEAN : FCallReturn(t, failed))
    /\ \A t \in 1..MaxFanTasks : WF_vars(FReport(t))
    /\ \A t \in 1..MaxFanTasks : WF_vars(FDone(t))
    /\ WF_vars(FWait)
    /\ WF_vars(FRange)

(***************************************************************************)
(* client.APIClient against the coordinator's router.  A URL path is the   *)
(* sequence of its segments; the router answers 404 for a method and path  *)
(* that no route matches.                                                  *)
(***************************************************************************)
\* calls the client makes in a run
MaxApiCalls == 4
\* file ids the requests may name: those drawn by the uploads and one more
MaxApiIDs == 3

ApiPrefix == <<"api", "v1">>

\* setupStreamingRoutes: the handler of a request, "NoRoute" when none matches
Route(method, path) ==
    IF method = "GET" /\ path = <<"health">> THEN "healthCheck"
    ELSE IF Len(path) < 3 \/ SubSeq(path, 1, 3) # ApiPrefix \o <<"files">>
    THEN "NoRoute"
    ELSE IF Len(path) = 3 /\ method = "POST" THEN "streamingUploadFile"
    ELSE IF Len(path) = 3 /\ method = "GET" THEN "listFiles"
    ELSE IF Len(path) = 4 /\ method = "GET" THEN "streamingDownloadFile"
    ELSE IF Len(path) = 4 /\ method = "DELETE" THEN "deleteFile"
    ELSE IF Len(path) = 5 /\ method = "GET" /\ path[5] = "info" THEN "getFileInfo"
    ELSE "NoRoute"

\* the URLs the client builds
UploadURL(base) == base \o <<"api", "v1", "files">>

DeleteURL(base, fileID) == base \o <<"files", fileID>>

ListURL(base) == base \o <<"api", "v1", "files">>

\* APIClient.DeleteFile returns nil for these answers
APIDeleteOK(status) == status = 200 \/ status = 404

NoCall ==
    [op |-> "none", id |-> 0, handler |-> "none", status |-> 0, err |-> FALSE,
     files |-> {}, after |-> {}]

ApiOff ==
    /\ apiBase = <<>>
    /\ apiFiles = {}
    /\ apiIssued = 0
    /\ apiCalls = <<>>

\* the client is built with the server's root, or with the server's root
\* followed by the prefix of the routes
ApiInit ==
    /\ apiBase \in {<<>>, ApiPrefix}
    /\ apiFiles = {}
    /\ apiIssued = 0
    /\ apiCalls = <<>>

\* APIClient.UploadFile; the handler answers 200 and registers the file, or
\* 500 when the distribution failed
APIUploadFile(distributed) ==
    /\ Len(apiCalls) < MaxApiCalls
    /\ apiIssued < MaxApiIDs - 1
    /\ LET handler == Route("POST", UploadURL(apiBase))
           fileID == apiIssued + 1
           status == IF handler # "streamingUploadFile" THEN 404
                     ELSE IF distributed THEN 200 ELSE 500
       IN  /\ apiIssued' = IF handler = "streamingUploadFile" THEN fileID ELSE apiIssued
           /\ apiFiles' = IF status = 200 THEN apiFiles \cup {fileID} ELSE apiFiles
           /\ apiCalls' = Append(apiCalls,
                  [NoCall EXCEPT !.op = "UploadFile", !.handler = handler,
                                 !.id = IF status = 200 THEN fileID ELSE 0,
                                 !.status = status, !.err = (status # 200),
                                 !.after = apiFiles'])
    /\ UNCHANGED <<codecVars, sysVars, storeVars, lockVars, fanVars, apiBase>>

\* APIClient.DeleteFile against deleteFile or the router's 404
APIDeleteFile(fileID) ==
    /\ Len(apiCalls) < MaxApiCalls
    /\ LET handler == Route("DELETE", DeleteURL(apiBase, fileID))
           status == IF handler # "deleteFile" THEN 404
                     ELSE IF fileID \in apiFiles THEN 200 ELSE 404
       IN  /\ apiFiles' = IF handler = "deleteFile" THEN apiFiles \ {fileID}
                          ELSE apiFiles
           /\ apiCalls' = Append(apiCalls,
                  [NoCall EXCEPT !.op = "DeleteFile", !.handler = handler,
                                 !.id = fileID, !.status = status,
                                 !.err = ~APIDeleteOK(status),
                                 !.after = apiFiles'])
    /\ UNCHANGED <<codecVars, sysVars, storeVars, lockVars, fanVars, apiBase, apiIssued>>

\* APIClient.ListFiles against listFiles or the router's 404
APIListFiles ==
    /\ Len(apiCalls) < MaxApiCalls
    /\ LET handler == Route("GET", ListURL(apiBase))
           status == IF handler = "listFiles" THEN 200 ELSE 404
       IN  apiCalls' = Append(apiCalls,
               [NoCall EXCEPT !.op = "ListFiles", !.handler = handler,
                              !.status = status, !.err = (status # 200),
                              !.files = IF status = 200 THEN apiFiles ELSE {},
                              !.after = apiFiles])
    /\ UNCHANGED <<codecVars, sysVars, storeVars, lockVars, fanVars, apiBase, apiFiles, apiIssued>>

NextApi ==
    \/ \E distributed \in BOOLEAN : APIUploadFile(distributed)
    \/ \E fileID \in 1..MaxApiIDs : APIDeleteFile(fileID)
    \/ APIListFiles

(***************************************************************************)
(* Specifications.                                                         *)
(***************************************************************************)
Init == ApiOff /\ FanOff /\ CodecOff /\ StoreInit /\ LockOff /\ SysInit(MaxFiles, MaxDownloads, MaxDeletes, 0, 0)

Spec == Init /\ [][Next]_vars

InitOpen ==
    ApiOff /\ FanOff /\ CodecOff /\ StoreInit /\ LockOff /\ SysInit(1, MaxDownloads, MaxDeletes, MaxInfos, MaxDirect)

SpecOpen == InitOpen /\ [][NextOpen]_vars

InitCodec == ApiOff /\ FanOff /\ CodecInit /\ StoreInit /\ LockOff /\ SysOff

SpecCodec == InitCodec /\ [][NextCodec]_vars

InitStore == ApiOff /\ FanOff /\ CodecOff /\ SysOff /\ LockOff /\ StoreInit

InitHealth == ApiOff /\ FanOff /\ CodecOff /\ StoreInit /\ LockOff /\ HealthInit

SpecHealth == InitHealth /\ [][NextHealth]_vars

InitLock == ApiOff /\ FanOff /\ CodecOff /\ StoreInit /\ SysOff /\ LockInit

SpecLock == InitLock /\ [][NextLock]_vars

InitFan == ApiOff /\ CodecOff /\ StoreInit /\ SysOff /\ LockOff /\ FanInit

SpecFan == InitFan /\ [][NextFan]_vars /\ FanFairness

InitApi == CodecOff /\ StoreInit /\ SysOff /\ LockOff /\ FanOff /\ ApiInit

SpecApi == InitApi /\ [][NextApi]_vars

SpecStore == InitStore /\ [][NextStore]_vars

(***************************************************************************)
(* Properties of the codec (SpecCodec).                                    *)
(***************************************************************************)
SplitChunks == cSplit.metadata.chunks

\* ReconstructFile was handed the chunks of the split as ChunkFile returned them
ReconstructedSplit == cPhase = "reconstructed" /\ cIn = SplitChunks

\* C1: for every content D and chunk count K > 0, reconstructing the chunks that
\* ChunkFile produced for D succeeds and writes exactly D.
C1_CodecRoundTrip ==
    ReconstructedSplit => (cRecon.status = "ok" /\ cRecon.output = cFile)

C1_Witness ==
    /\ ReconstructedSplit
    /\ cK = 2
    /\ Len(cFile) = 3
    /\ cRecon.output = cFile

RECURSIVE SumSizes(_)
SumSizes(chunks) ==
    IF chunks = <<>> THEN 0 ELSE chunks[1].size + SumSizes(Tail(chunks))

\* C3: for K > 0 the split succeeds with K chunks; chunks 0..K-2 have size
\* floor(len(D)/K), the last has floor(len(D)/K) + (len(D) mod K), and the sizes
\* sum to len(D).
C3_SplitSizeLaw ==
    (cPhase # "init" /\ cK > 0) =>
        /\ cSplit.status = "ok"
        /\ Len(SplitChunks) = cK
        /\ \A i \in 0..(cK - 2) : SplitChunks[i + 1].size = Len(cFile) \div cK
        /\ SplitChunks[cK].size = (Len(cFile) \div cK) + (Len(cFile) % cK)
        /\ SumSizes(SplitChunks) = Len(cFile)

C3_Witness ==
    /\ cPhase = "split"
    /\ cK = 2
    /\ Len(cFile) = 3
    /\ SplitChunks[1].size = 1
    /\ SplitChunks[2].size = 2

\* C7: a split with chunkCount <= 0 returns an InvalidArgument error, from
\* ChunkFile and from chunkFileInMemory alike.
C7_InvalidArgument ==
    (cPhase # "init" /\ cK <= 0) =>
        /\ cSplit.status = "InvalidArgument"
        /\ cSplitMem.status = "InvalidArgument"

\* the number of chunks of the input that carry index i
CountIndex(chunks, i) == Cardinality({p \in DOMAIN chunks : chunks[p].index = i})

\* some position of the sorted input holds a chunk with another index: the
\* indices are not exactly 0..n-1, each once
HasGap(chunks) == \E i \in 0..(Len(chunks) - 1) : CountIndex(chunks, i) # 1

\* the smallest index 0, 1, 2, ... that no chunk of the input carries
SmallestAbsent(chunks) ==
    Min({i \in 0..Len(chunks) : CountIndex(chunks, i) = 0})

\* the k-th smallest index of the input, k = 1..n
NthIndex(chunks, k) ==
    CHOOSE v \in {chunks[p].index : p \in DOMAIN chunks} :
        /\ Cardinality({p \in DOMAIN chunks : chunks[p].index < v}) < k
        /\ Cardinality({p \in DOMAIN chunks : chunks[p].index <= v}) >= k

\* the first position whose chunk, in index order, carries another index
FirstMisplaced(chunks) ==
    Min({i \in 0..(Len(chunks) - 1) : NthIndex(chunks, i + 1) # i})

DistinctNonNegative(chunks) ==
    /\ \A p \in DOMAIN chunks : chunks[p].index >= 0
    /\ \A p, q \in DOMAIN chunks : chunks[p].index = chunks[q].index => p = q

\* C8 as stated: whenever the sorted input has a position i whose chunk's index
\* is not i, ReconstructFile fails with MissingChunk and names the smallest index
\* absent from the input.
C8_NamesSmallestAbsent ==
    (cPhase = "reconstructed" /\ HasGap(cIn)) =>
        /\ cRecon.status = "MissingChunk"
        /\ cRecon.index = SmallestAbsent(cIn)

\* C8 amended: whenever the sorted input has a position i whose chunk's index is
\* not i, ReconstructFile fails with MissingChunk naming the first such position;
\* when the indices of the input are distinct and non-negative, that is the
\* smallest index absent from the input (so omitting a middle chunk of a split
\* names the omitted index).  Without such a position a non-empty input succeeds.
C8_NamesFirstMisplaced ==
    cPhase = "reconstructed" =>
        /\ HasGap(cIn) =>
              /\ cRecon.status = "MissingChunk"
              /\ cRecon.index = FirstMisplaced(cIn)
              /\ DistinctNonNegative(cIn) => cRecon.index = SmallestAbsent(cIn)
        /\ (~HasGap(cIn) /\ cIn # <<>>) => cRecon.status = "ok"

\* a middle chunk of a three-way split was left out, the rest handed over unsorted
C8_Witness ==
    /\ cPhase = "reconstructed"
    /\ cK = 3
    /\ Len(cIn) = 2
    /\ cIn[1].index = 2
    /\ cIn[2].index = 0
    /\ cRecon.status = "MissingChunk"
    /\ cRecon.index = 1

\* C9: ValidateChunk succeeds on every chunk ChunkFile produced, whatever D and
\* K > 0.
C9_SplitChunksValid ==
    (cPhase = "validated" /\ cChunk = cBase) => cValid = "ok"

C9_Witness ==
    /\ cPhase = "validated"
    /\ cChunk = cBase
    /\ cK = 2
    /\ Len(cFile) = 3
    /\ cBase.index = 1
    /\ cValid = "ok"

\* the fields among data, size and checksum in which cChunk differs from cBase
ChangedFields ==
    {f \in {"data", "size", "checksum"} :
        \/ f = "data" /\ cChunk.data # cBase.data
        \/ f = "size" /\ cChunk.size # cBase.size
        \/ f = "checksum" /\ cChunk.checksum # cBase.checksum}

\* C10: ValidateChunk fails exactly when the data is absent, or len(data) # size,
\* or digest(data) # checksum; a valid chunk with any one of data, size and
\* checksum changed fails.
C10_ValidateExact ==
    cPhase = "validated" =>
        /\ cValid # "ok" <=>
              \/ cChunk.data = NilData
              \/ DataLen(cChunk.data) # cChunk.size
              \/ calculateChecksum(DataBytes(cChunk.data)) # cChunk.checksum
        /\ Cardinality(ChangedFields) = 1 => cValid # "ok"

\* only the checksum of a valid chunk was changed
C10_Witness ==
    /\ cPhase = "validated"
    /\ ChangedFields = {"checksum"}
    /\ cBase.size = 2
    /\ cValid = "ChecksumMismatch"

\* C11: ValidateFileMetadata fails whenever len(chunks) # chunk_count, or some
\* chunks[i].index # i (two chunks swapped included), or some chunks[i].file_id
\* is not the metadata's id, or the chunk sizes do not sum to size, and in no
\* other case; it succeeds on every metadata ChunkFile produced.
C11_ValidateMetadataExact ==
    cPhase = "metaValidated" =>
        /\ cMetaValid # "ok" <=>
              \/ Len(cMeta.chunks) # cMeta.chunk_count
              \/ \E p \in DOMAIN cMeta.chunks : cMeta.chunks[p].index # p - 1
              \/ \E p \in DOMAIN cMeta.chunks : cMeta.chunks[p].file_id # cMeta.id
              \/ SumSizes(cMeta.chunks) # cMeta.size
        /\ cMeta = cSplit.metadata => cMetaValid = "ok"

\* only the file id of the second chunk of a three-way split was altered
C11_Witness ==
    /\ cPhase = "metaValidated"
    /\ cK = 3
    /\ cMeta.chunk_count = 3
    /\ Len(cMeta.chunks) = 3
    /\ cMeta.size = cSplit.metadata.size
    /\ cMeta.chunks[2].file_id # cMeta.id
    /\ \A p \in 1..3 : cMeta.chunks[p].index = p - 1
    /\ cMetaValid = "FileIDMismatch"

\* cIn holds every chunk of the split exactly once, in some order
IsPermutationOfSplit ==
    /\ Len(cIn) = Len(SplitChunks)
    /\ \A p \in DOMAIN SplitChunks :
          Cardinality({q \in DOMAIN cIn : cIn[q] = SplitChunks[p]}) = 1

\* C13: for every permutation of the chunks ChunkFile produced for D,
\* ReconstructFile succeeds, writes the payloads in index order, and the output
\* is D.
C13_OrderIndependent ==
    (cPhase = "reconstructed" /\ IsPermutationOfSplit) =>
        /\ cRecon.status = "ok"
        /\ cRecon.chunks = SplitChunks
        /\ cRecon.output = cFile

\* the three chunks of a three-byte file were handed over in reverse order
C13_Witness ==
    /\ cPhase = "reconstructed"
    /\ IsPermutationOfSplit
    /\ cK = 3
    /\ Len(cFile) = 3
    /\ cIn[1].index = 2
    /\ cIn[2].index = 1
    /\ cIn[3].index = 0
    /\ cRecon.output = cFile

\* an empty chunk: no bytes, but a payload that is present
EmptyAccepted(chunk) ==
    /\ chunk.data = <<>>
    /\ chunk.size = 0
    /\ ValidateChunk(chunk) = "ok"
    /\ LET resp == ServerStoreChunk(EmptyMap, MarshalChunk(chunk))
       IN  /\ resp.status = 200
           /\ MemHasChunk(resp.chunks, chunk.id)

\* C12: when chunkCount exceeds len(D), ChunkFile and chunkFileInMemory do not
\* fail; they yield chunkCount chunks whose leading chunkCount - 1 chunks are
\* empty, each empty chunk passes ValidateChunk and is stored by a node's store
\* endpoint with status 200, and reconstruction returns D.
C12_DegenerateSplit ==
    (cPhase # "init" /\ cK > Len(cFile)) =>
        /\ cSplit.status = "ok"
        /\ cSplitMem.status = "ok"
        /\ Len(SplitChunks) = cK
        /\ Len(cSplitMem.chunks) = cK
        /\ \A p \in 1..(cK - 1) :
              EmptyAccepted(SplitChunks[p]) /\ EmptyAccepted(cSplitMem.chunks[p])
        /\ reconstructFileInMemory(cSplitMem.chunks) = cFile
        /\ ReconstructedSplit => (cRecon.status = "ok" /\ cRecon.output = cFile)

\* one byte split three ways came back
C12_Witness ==
    /\ ReconstructedSplit
    /\ cK = 3
    /\ Len(cFile) = 1
    /\ SplitChunks[1].data = <<>>
    /\ SplitChunks[2].data = <<>>
    /\ SplitChunks[3].data = cFile
    /\ cRecon.output = cFile

(***************************************************************************)
(* Properties of the running system (Spec, SpecOpen).                      *)
(***************************************************************************)
\* C2: with node stores changed only by the coordinator, a download that starts
\* after the upload of its file was answered 200, meets no transport failure and
\* no delete of that file, is answered 200 with exactly the uploaded bytes.
C2_SystemRoundTrip ==
    \A d \in DOMAIN downloads :
        (/\ downloads[d].pc = "done"
         /\ downloads[d].afterUpload
         /\ ~downloads[d].netFail
         /\ downloads[d].fid \notin deleted)
        => (/\ downloads[d].status = 200
            /\ downloads[d].body = uploads[downloads[d].fid].data)

\* three bytes in two chunks on two servers came back
C2_Witness ==
    \E d \in DOMAIN downloads :
        /\ downloads[d].pc = "done"
        /\ downloads[d].afterUpload
        /\ downloads[d].status = 200
        /\ chunkCount = 2
        /\ nodeCount = 2
        /\ Len(downloads[d].body) = 3
        /\ downloads[d].body = uploads[downloads[d].fid].data

\* C4: a download is answered 200 only with bytes whose digest is the checksum
\* registered for the file; a chunk replaced on its node makes the download fail.
C4_DownloadVerifiesChecksum ==
    \A d \in DOMAIN downloads :
        (downloads[d].pc = "done" /\ downloads[d].status = 200)
        => calculateChecksum(downloads[d].body) = downloads[d].metadata.checksum

UploadHasFailedStore(f) == \E p \in DOMAIN uploads[f].tasks : uploads[f].tasks[p] = "err"

\* C5: once the store of any chunk of an upload has failed, the upload's file id
\* is not in the metadata map, in this and every later state; the upload is
\* answered with an error and every download of that id is answered 404.
C5_FailedUploadNotRegistered ==
    \A f \in DOMAIN uploads :
        UploadHasFailedStore(f) =>
            /\ f \notin DOMAIN fileMetadata
            /\ uploads[f].pc = "done" => uploads[f].status = 500
            /\ \A d \in DOMAIN downloads :
                   downloads[d].fid = f => downloads[d].status = 404

\* an upload ended with one chunk stored and another one failed
C5_Witness ==
    \E f \in DOMAIN uploads :
        /\ uploads[f].pc = "done"
        /\ UploadHasFailedStore(f)
        /\ \E p \in DOMAIN uploads[f].tasks : uploads[f].tasks[p] = "ok"
        /\ \E d \in DOMAIN downloads : downloads[d].fid = f

\* C6: a download or info request whose file id is not in the metadata map is
\* answered 404; so is every one that starts after a Delete of that id was
\* answered 200, whatever became of the chunk deletes on the nodes.
C6_NotFoundAfterDelete ==
    /\ \A d \in DOMAIN downloads :
           (downloads[d].afterDelete \/ ~downloads[d].known)
           => (downloads[d].pc = "done" /\ downloads[d].status = 404)
    /\ \A r \in DOMAIN infos :
           (infos[r].afterDelete \/ ~infos[r].known) => infos[r].status = 404

\* a download and an info request came after a delete whose chunk delete failed
C6_Witness ==
    /\ \E d \in DOMAIN downloads :
           downloads[d].afterDelete /\ downloads[d].status = 404
    /\ \E r \in DOMAIN infos : infos[r].afterDelete /\ infos[r].status = 404
    /\ \E x \in DOMAIN deletes :
           /\ deletes[x].status = 200
           /\ \E p \in DOMAIN deletes[x].tasks : deletes[x].tasks[p] = "err"

\* the download found its metadata and ran collectChunks to the end
Collected(d) == downloads[d].pc = "done" /\ downloads[d].known

FetchFailed(d) == \E p \in DOMAIN downloads[d].tasks : downloads[d].tasks[p] = "err"

\* C14: a download whose collect met a failed fetch is answered with an error and
\* no bytes; one answered 200 had every fetch succeed, position i of the
\* collected chunks holding the chunk of metadata chunk i, and carries exactly
\* the uploaded bytes.  So a download racing with a delete of its file returns
\* the whole original or fails, never part of it.
C14_CollectAllOrNothing ==
    \A d \in DOMAIN downloads :
        Collected(d) =>
            /\ FetchFailed(d) => (downloads[d].status = 500 /\ downloads[d].body = <<>>)
            /\ ~FetchFailed(d) => downloads[d].status = 200
            /\ downloads[d].status = 200 =>
                  /\ \A p \in DOMAIN downloads[d].chunks :
                        /\ downloads[d].chunks[p].id = downloads[d].metadata.chunks[p].id
                        /\ downloads[d].chunks[p].index = p - 1
                  /\ downloads[d].body = uploads[downloads[d].fid].data

\* a download raced with a delete of its file: one chunk was fetched, the other
\* was already gone from its node
C14_Witness ==
    \E d \in DOMAIN downloads :
        /\ Collected(d)
        /\ ~downloads[d].netFail
        /\ downloads[d].fid \in deleted
        /\ Len(downloads[d].metadata.chunks) = 2
        /\ downloads[d].tasks[1] = "ok"
        /\ downloads[d].tasks[2] = "err"
        /\ downloads[d].chunks[1].size > 0
        /\ downloads[d].status = 500

\* the chunk of delete task p is still on the node that owns it
ChunkRemains(x, p) ==
    LET chunk == deletes[x].metadata.chunks[p]
        node == nodeChunks[ServerIndex(p - 1, nodeCount)]
    IN  MemHasChunk(node, chunk.id) /\ node[chunk.id] = chunk

StoreView == View(msChunks, heap)

\* what GetChunk(id) returns in the current state, as a value
GetNow(chunkID) ==
    LET r == GetChunk(msChunks, heap, chunkID)
    IN  [err |-> r.err, chunk |-> Deref(r.chunk, r.heap)]

\* a chunk with the same fields and the same payload bytes, the payload present
SameBytes(c) == [c EXCEPT !.data = DataBytes(@)]

Occurrences(ids, id) == Cardinality({p \in DOMAIN ids : ids[p] = id})

\* C16 as stated: StoreChunk returns no error, also on an id already stored;
\* afterwards GetChunk(c.id) returns a chunk equal to c in every field, the
\* latest chunk stored under the id, and ListChunks holds the id exactly once.
C16_GetEqualsStored ==
    /\ msResult.op = "store" =>
          /\ msResult.err = ""
          /\ GetNow(msResult.id).err = ""
          /\ GetNow(msResult.id).chunk = msResult.chunk
    /\ (msResult.op = "get" /\ msResult.id \in DOMAIN msExpect) =>
          /\ msResult.err = ""
          /\ msResult.chunk = msExpect[msResult.id]
    /\ msResult.op = "list" =>
          \A id \in DOMAIN msExpect : Occurrences(msResult.ids, id) = 1

\* C16 amended: as above, except that the chunk GetChunk returns equals c in id,
\* file id, index, size and checksum and carries the same payload bytes in a
\* payload that is always present: a nil Data comes back as an empty one.  With
\* a payload that is present the returned chunk equals c in every field.
C16_GetEqualsStoredBytes ==
    /\ msResult.op = "store" =>
          /\ msResult.err = ""
          /\ GetNow(msResult.id).err = ""
          /\ GetNow(msResult.id).chunk = SameBytes(msResult.chunk)
          /\ msResult.chunk.data # NilData =>
                GetNow(msResult.id).chunk = msResult.chunk
    /\ (msResult.op = "get" /\ msResult.id \in DOMAIN msExpect) =>
          /\ msResult.err = ""
          /\ msResult.chunk = SameBytes(msExpect[msResult.id])
          /\ msResult.chunk.data # NilData
    /\ msResult.op = "list" =>
          \A id \in DOMAIN msExpect : Occurrences(msResult.ids, id) = 1

\* a chunk of one byte was replaced by a chunk of two bytes under the same id
C16_Witness ==
    /\ msResult.op = "store"
    /\ msResult.id \in DOMAIN msResult.before
    /\ msResult.before[msResult.id].data = <<0>>
    /\ msResult.chunk.data = <<0, 1>>
    /\ GetNow(msResult.id).chunk = msResult.chunk
    /\ Cardinality(DOMAIN msChunks) = 2

\* C17: DeleteChunk of a stored id returns no error and removes exactly that id:
\* GetChunk of it is then NotFound and every other chunk is as before.
\* DeleteChunk of an id that is not stored returns NotFound and leaves the
\* store as it was.  GetChunk of an id that is not stored returns NotFound.
C17_DeleteExact ==
    /\ (msResult.op = "delete" /\ msResult.id \in DOMAIN msResult.before) =>
          /\ msResult.err = ""
          /\ DOMAIN msChunks = (DOMAIN msResult.before) \ {msResult.id}
          /\ \A id \in DOMAIN msChunks : StoreView[id] = msResult.before[id]
          /\ GetNow(msResult.id).err = "NotFound"
    /\ (msResult.op = "delete" /\ msResult.id \notin DOMAIN msResult.before) =>
          /\ msResult.err = "NotFound"
          /\ StoreView = msResult.before
    /\ (msResult.op = "get" /\ msResult.id \notin DOMAIN msChunks) =>
          msResult.err = "NotFound"
    /\ \A id \in StoreIDs \ DOMAIN msChunks : GetNow(id).err = "NotFound"

\* one of two stored chunks was deleted
C17_Witness ==
    /\ msResult.op = "delete"
    /\ msResult.err = ""
    /\ Cardinality(DOMAIN msResult.before) = 2
    /\ Cardinality(DOMAIN msChunks) = 1
    /\ \A id \in DOMAIN msChunks : Len(StoreView[id].data) = 2

\* the store as the calls so far say it should be
ExpectedView == [id \in DOMAIN msExpect |-> SameBytes(msExpect[id])]

\* C18: a write by the caller into the payload of the chunk it passed to
\* StoreChunk, or of a chunk GetChunk returned, changes nothing GetChunk returns
\* afterwards: the store holds, and GetChunk returns, the bytes each chunk had
\* when it was stored.
C18_NoSharedBuffer ==
    /\ msResult.op = "mutate" =>
          /\ StoreView = msResult.before
          /\ \A id \in DOMAIN msChunks : GetNow(id).chunk = msResult.before[id]
    /\ StoreView = ExpectedView
    /\ \A id \in DOMAIN msChunks : held.addr # msChunks[id].data

\* the caller overwrote the buffer GetChunk had returned for a stored chunk
C18_Witness ==
    /\ msResult.op = "mutate"
    /\ held.from = "got"
    /\ heap[held.addr] = <<1, 1>>
    /\ \E id \in DOMAIN msChunks : StoreView[id].data = <<0, 1>>

RECURSIVE SumPayload(_, _)
SumPayload(view, ids) ==
    IF ids = {} THEN 0
    ELSE LET id == CHOOSE x \in ids : TRUE
         IN  DataLen(view[id].data) + SumPayload(view, ids \ {id})

\* C19: in every state reached by StoreChunk, overwrites, DeleteChunk and
\* ClearAll, GetMemoryUsage is the sum of the payload lengths of the stored
\* chunks and equals GetStorageInfo's total_size; chunk_count is the number of
\* ids ListChunks returns; storage_type is "memory"; after ClearAll the list is
\* empty and the usage 0.
C19_Accounting ==
    LET usage == GetMemoryUsage(msChunks, heap)
        info == GetStorageInfo(msChunks, heap)
    IN  /\ usage = SumPayload(StoreView, DOMAIN StoreView)
        /\ usage = SumPayload(ExpectedView, DOMAIN ExpectedView)
        /\ usage = info.total_size
        /\ \A ids \in ListChunks(msChunks) : info.chunk_count = Len(ids)
        /\ info.storage_type = "memory"
        /\ msResult.op = "usage" => msResult.count = usage
        /\ msResult.op = "info" => msResult.info = info
        /\ msResult.op = "list" => Len(msResult.ids) = info.chunk_count
        /\ msResult.op = "clear" => (ListChunks(msChunks) = {<<>>} /\ usage = 0)

\* two chunks of one and two bytes are stored and the usage was asked
C19_Witness ==
    /\ msResult.op = "usage"
    /\ msResult.count = 3
    /\ Cardinality(DOMAIN msChunks) = 2

\* C20: CompactStorage returns the number of chunks stored and leaves the stored
\* chunks, their contents, and with them the list, the usage and the info as
\* they were; the compact endpoint reports that number as chunks_removed.
C20_CompactNoOp ==
    msResult.op = "compact" =>
        /\ msResult.count = Cardinality(DOMAIN msResult.before)
        /\ StoreView = msResult.before
        /\ GetMemoryUsage(msChunks, heap)
             = SumPayload(msResult.before, DOMAIN msResult.before)
        /\ GetStorageInfo(msChunks, heap).chunk_count = msResult.count

\* the endpoint reported two chunks removed; both are still stored
C20_Witness ==
    /\ msResult.op = "compact"
    /\ msResult.count = 2
    /\ Cardinality(DOMAIN msChunks) = 2
    /\ GetMemoryUsage(msChunks, heap) = 3

(***************************************************************************)
(* Properties of the node endpoints and of the coordinator's bookkeeping.  *)
(***************************************************************************)
\* C21: the store endpoint answers 400 and leaves the node's store as it was for
\* every chunk that ValidateChunk rejects, and answers 200 with the chunk stored
\* for every chunk it accepts; so every chunk held by a node has a payload with
\* size = len(data) and checksum = digest(data).
C21_NodesHoldValidChunks ==
    /\ \A e \in DOMAIN directs :
          /\ ValidateChunk(directs[e].chunk) # "ok" =>
                (directs[e].status = 400 /\ ~directs[e].changed)
          /\ ValidateChunk(directs[e].chunk) = "ok" =>
                (directs[e].status = 200 /\ directs[e].stored)
    /\ \A n \in DOMAIN nodeChunks : \A id \in DOMAIN nodeChunks[n] :
          LET c == nodeChunks[n][id]
          IN  /\ c.data # NilData
              /\ c.size = Len(c.data)
              /\ c.checksum = calculateChecksum(c.data)

\* a node that holds a chunk of an upload refused a chunk whose size is wrong
C21_Witness ==
    \E e \in DOMAIN directs :
        /\ directs[e].status = 400
        /\ directs[e].chunk.data = <<0>>
        /\ directs[e].chunk.size = 2
        /\ nodeChunks[directs[e].node] # EmptyMap

\* C22: the delete endpoint of a node answers 200 when the id was stored and is
\* now removed, and 404 when the id is not stored, so that the client's
\* DeleteChunk of an absent id returns without error.
C22_DeleteAbsentAnswers404 ==
    msResult.op = "deleteRequest" =>
        /\ msResult.id \in DOMAIN msResult.before =>
              /\ msResult.count = 200
              /\ msResult.id \notin DOMAIN msChunks
        /\ msResult.id \notin DOMAIN msResult.before =>
              /\ msResult.count = 404
              /\ msResult.err = ""

\* the nodes whose health check succeeded
HealthyNodes == {p \in DOMAIN health.probed : health.probed[p] = "ok"}

\* C23: the health summary says "healthy" exactly when the number of nodes whose
\* health check succeeded is at least the configured chunk count, and "degraded"
\* otherwise; total_servers is the number of configured nodes, healthy_servers
\* the number of successful checks, never more than total_servers; with fewer
\* nodes than the chunk count the status is "degraded".
C23_HealthSummary ==
    health.pc = "done" =>
        /\ health.status \in {"healthy", "degraded"}
        /\ health.status = "healthy" <=> Cardinality(HealthyNodes) >= chunkCount
        /\ health.total_servers = nodeCount
        /\ health.healthy_servers = Cardinality(HealthyNodes)
        /\ health.healthy_servers <= health.total_servers
        /\ nodeCount < chunkCount => health.status = "degraded"

\* two of three nodes answered; with a chunk count of three that is degraded
C23_Witness ==
    /\ health.pc = "done"
    /\ chunkCount = 3
    /\ nodeCount = 3
    /\ health.healthy_servers = 2
    /\ health.probed[2] = "unreachable"
    /\ health.status = "degraded"

StillRunning(f) == \E p \in DOMAIN uploads[f].tasks : uploads[f].tasks[p] = "pending"

AllStored(f) == \A p \in DOMAIN uploads[f].tasks : uploads[f].tasks[p] = "ok"

\* C24: distributeChunks returns only when every store task it spawned has
\* finished: no task of an upload is running when the upload has registered
\* its metadata or answered.  It returns nil iff every task succeeded (the upload
\* answers 200), and otherwise the error that was sent first.
C24_JoinBarrier ==
    \A f \in DOMAIN uploads :
        /\ (uploads[f].pc = "done" \/ f \in DOMAIN fileMetadata) => ~StillRunning(f)
        /\ uploads[f].pc = "done" =>
              /\ uploads[f].status = 200 <=> AllStored(f)
              /\ AllStored(f) => (uploads[f].err = -1 /\ f \in DOMAIN fileMetadata \cup deleted)
              /\ ~AllStored(f) =>
                    /\ uploads[f].status = 500
                    /\ uploads[f].err = Head(uploads[f].errChan)
                    /\ uploads[f].tasks[uploads[f].err + 1] = "err"

\* both stores of an upload failed, the second chunk's first; its error is returned
C24_Witness ==
    \E f \in DOMAIN uploads :
        /\ uploads[f].pc = "done"
        /\ uploads[f].errChan = <<1, 0>>
        /\ uploads[f].err = 1
        /\ uploads[f].status = 500

\* nodeIndex = chunkIndex mod nodeCount
Placement(chunkIndex) == chunkIndex % nodeCount

\* C25: every store task asks node (chunkIndex mod nodeCount), and every fetch
\* task and every delete task for a chunk asks the node that was asked to store
\* that chunk.
C25_SamePlacement ==
    /\ \A f \in DOMAIN uploads : \A p \in DOMAIN uploads[f].asked :
          uploads[f].asked[p] # -1 => uploads[f].asked[p] = Placement(p - 1)
    /\ \A d \in DOMAIN downloads : \A p \in DOMAIN downloads[d].asked :
          downloads[d].asked[p] # -1 =>
              downloads[d].asked[p] = uploads[downloads[d].fid].asked[p]
    /\ \A x \in DOMAIN deletes : \A p \in DOMAIN deletes[x].asked :
          deletes[x].asked[p] # -1 =>
              deletes[x].asked[p] = uploads[deletes[x].fid].asked[p]

\* the second chunk of a file was stored on, fetched from and deleted from node 1
C25_Witness ==
    \E d \in DOMAIN downloads, x \in DOMAIN deletes :
        /\ nodeCount = 2
        /\ Len(downloads[d].asked) = 2
        /\ Len(deletes[x].asked) = 2
        /\ downloads[d].fid = deletes[x].fid
        /\ uploads[downloads[d].fid].asked[2] = 1
        /\ downloads[d].asked[2] = 1
        /\ deletes[x].asked[2] = 1

\* chunk p of upload f is on the node of its index
OnItsNode(f, p) ==
    LET chunk == uploads[f].metadata.chunks[p]
        node == nodeChunks[Placement(p - 1)]
    IN  chunk.id \in DOMAIN node /\ node[chunk.id] = chunk

\* C26: when the distribution of an upload fails, every chunk whose store
\* succeeded stays on its node: the upload's id is never registered, so no
\* delete of the coordinator reaches it, and no metadata entry refers to it.
C26_NoCompensation ==
    \A f \in DOMAIN uploads :
        uploads[f].errChan # <<>> =>
            /\ f \notin DOMAIN fileMetadata
            /\ \A x \in DOMAIN deletes : deletes[x].fid = f => deletes[x].tasks = <<>>
            /\ \A p \in DOMAIN uploads[f].tasks :
                  uploads[f].tasks[p] = "ok" => OnItsNode(f, p)

\* an upload was answered 500 and a delete of its id 404; its first chunk is
\* still stored
C26_Witness ==
    \E f \in DOMAIN uploads, x \in DOMAIN deletes :
        /\ uploads[f].pc = "done"
        /\ uploads[f].status = 500
        /\ uploads[f].tasks[1] = "ok"
        /\ OnItsNode(f, 1)
        /\ deletes[x].fid = f
        /\ deletes[x].status = 404

RECURSIVE ConcatPayloads(_)
ConcatPayloads(chunks) ==
    IF chunks = <<>> THEN <<>> ELSE chunks[1].data \o ConcatPayloads(Tail(chunks))

\* C27: every entry of the metadata map has len(chunks) = chunk_count,
\* chunks[i].index = i and chunks[i].file_id = id for all i, chunk sizes that sum
\* to size, and a checksum that is the digest of the chunk payloads concatenated
\* in index order.
C27_MetadataInvariants ==
    \A f \in DOMAIN fileMetadata :
        LET m == fileMetadata[f]
        IN  /\ m.id = f
            /\ Len(m.chunks) = m.chunk_count
            /\ \A p \in DOMAIN m.chunks :
                  m.chunks[p].index = p - 1 /\ m.chunks[p].file_id = m.id
            /\ SumSizes(m.chunks) = m.size
            /\ calculateChecksum(ConcatPayloads(m.chunks)) = m.checksum

\* a file of three bytes in two chunks is registered
C27_Witness ==
    \E f \in DOMAIN fileMetadata :
        /\ fileMetadata[f].size = 3
        /\ fileMetadata[f].chunk_count = 2
        /\ fileMetadata[f].chunks[2].size = 2

\* C28: the metadata entries of the map, and the metadata an info request
\* returns, carry no chunk payload bytes.
C28_MetadataHoldsNoBytes ==
    /\ \A f \in DOMAIN fileMetadata : \A p \in DOMAIN fileMetadata[f].chunks :
          DataBytes(fileMetadata[f].chunks[p].data) = <<>>
    /\ \A r \in DOMAIN infos : \A p \in DOMAIN infos[r].metadata.chunks :
          DataBytes(infos[r].metadata.chunks[p].data) = <<>>

\* C30: with node stores changed only by the coordinator's store and delete
\* calls, every chunk i of every registered file is stored under its chunk id
\* on node (i mod nodeCount).
C30_RegisteredImpliesStored ==
    \A f \in DOMAIN fileMetadata : \A p \in DOMAIN fileMetadata[f].chunks :
        LET chunk == fileMetadata[f].chunks[p]
            node == nodeChunks[(p - 1) % nodeCount]
        IN  /\ chunk.id \in DOMAIN node
            /\ node[chunk.id].id = chunk.id
            /\ node[chunk.id].data = chunk.data

\* one file is registered with its two chunks on two nodes while the chunks of
\* a deleted file are gone
C30_Witness ==
    \E f \in DOMAIN fileMetadata, g \in deleteReturned :
        /\ nodeCount = 2
        /\ Len(fileMetadata[f].chunks) = 2
        /\ ChunkID(f, 0) \in DOMAIN nodeChunks[0]
        /\ ChunkID(f, 1) \in DOMAIN nodeChunks[1]
        /\ ChunkID(g, 0) \notin DOMAIN nodeChunks[0]

HoldsLock(h) == mu.writer = h \/ h \in mu.readers

\* C29: no handler holds the metadata lock while one of its node calls is
\* outstanding; the lock is held only between a lock operation and the map
\* access that follows it.  Hence while node calls are outstanding and no
\* handler is inside such a map access, the lock is free.
C29_NoLockAcrossNodeCalls ==
    /\ \A h \in Handlers : lcalls[h] > 0 => ~HoldsLock(h)
    /\ \A h \in Handlers :
           HoldsLock(h) <=> lpc[h] \in {"locked", "rlocked", "found", "absent"}
    /\ mu.writer # "none" => mu.readers = {}

\* the delete's node calls are outstanding while the upload registers its
\* metadata under the write lock
C29_Witness ==
    /\ lpc["delete"] = "fanout"
    /\ lcalls["delete"] = MaxLockCalls
    /\ lcalls["download"] > 0
    /\ mu.writer = "upload"

\* C31: for every content and every chunk count above zero the coordinator's
\* splitter and ChunkFile return the same chunk sequence, and the metadata the
\* upload builds has the size and whole-file checksum of ChunkFile's metadata.
C31_SplittersAgree ==
    (cPhase # "init" /\ cK > 0) =>
        /\ cSplit.status = "ok"
        /\ cSplitMem.status = "ok"
        /\ cSplitMem.chunks = cSplit.metadata.chunks
        /\ cUpload.size = cSplit.metadata.size
        /\ cUpload.checksum = cSplit.metadata.checksum
        /\ cUpload = cSplit.metadata

\* a split with a remainder and with an empty chunk
C31_Witness ==
    /\ cPhase = "split"
    /\ cK = 2
    /\ Len(cFile) = 3
    /\ cSplitMem.status = "ok"
    /\ cSplitMem.chunks[2].size = 2
    /\ cUpload.size = 3

Finished(h) == lpc[h] \in {"done", "notfound"}

\* C32: of two delete requests for one id that was registered, exactly one
\* answers 200 and the other 404 however their steps interleave, and only the
\* one that answers 200 issues node deletes; at no time have both found the
\* entry.
C32_OneDeleteWins ==
    /\ ~(\A h \in Deleters : lpc[h] \in {"found", "fanout", "done"})
    /\ \A h \in Deleters :
           /\ lpc[h] = "notfound" => lhist.issued[h] = 0
           /\ lhist.issued[h] > 0 => lpc[h] \in {"fanout", "done"}
    /\ (lhist.reg0 /\ \A h \in Deleters : Finished(h)) =>
           \E h \in Deleters :
              /\ lpc[h] = "done"
              /\ lhist.issued[h] = MaxLockCalls
              /\ \A g \in Deleters \ {h} : lpc[g] = "notfound"

\* both deletes of a registered id have answered, the second to take the lock
\* being the request named first
C32_Witness ==
    /\ lhist.reg0
    /\ lpc["delete"] = "notfound"
    /\ lpc["delete2"] = "done"
    /\ lhist.issued["delete2"] = MaxLockCalls

\* C33: chunks of two uploads never share a chunk id; whatever happened to
\* other files (a failed upload, a delete, a download), every chunk of a
\* registered file is on its node as uploaded, and a download of it that found
\* its metadata and met no transport failure is answered 200 with its bytes.
C33_FilesIsolated ==
    /\ \A f, g \in DOMAIN uploads :
           f # g =>
              \A p \in DOMAIN uploads[f].metadata.chunks,
                 q \in DOMAIN uploads[g].metadata.chunks :
                    uploads[f].metadata.chunks[p].id # uploads[g].metadata.chunks[q].id
    /\ \A b \in DOMAIN fileMetadata :
           /\ \A p \in DOMAIN uploads[b].metadata.chunks : OnItsNode(b, p)
           /\ \A d \in DOMAIN downloads :
                  (/\ downloads[d].fid = b
                   /\ downloads[d].known
                   /\ downloads[d].pc = "done"
                   /\ ~downloads[d].netFail)
                  => (/\ downloads[d].status = 200
                      /\ downloads[d].body = uploads[b].data)

\* two files with the same two bytes: the first was deleted with both node
\* deletes done, the second is still registered and was downloaded
C33_Witness ==
    \E a, b \in DOMAIN uploads, x \in DOMAIN deletes, d \in DOMAIN downloads :
        /\ a # b
        /\ uploads[a].data = uploads[b].data
        /\ Len(uploads[b].data) = 2
        /\ chunkCount = 2
        /\ deletes[x].fid = a
        /\ deletes[x].pc = "done"
        /\ deletes[x].tasks = <<"ok", "ok">>
        /\ b \in DOMAIN fileMetadata
        /\ downloads[d].fid = b
        /\ downloads[d].status = 200
        /\ downloads[d].body = uploads[b].data

\* C34: when every node call returns, the fan-out returns; and a task that
\* has an error to report always finds room in the error channel, so its send
\* never blocks, even when every task fails.
C34_FanOutTerminates ==
    /\ [](\A t \in DOMAIN fTask : fTask[t] = "report" => Len(fChan) < Capacity(fN))
    /\ <>(fPc = "returned")

\* a distribution of three chunks returned after all three stores failed
C34_Witness ==
    /\ fKind = "distribute"
    /\ fPc = "returned"
    /\ fN = 3
    /\ Len(fChan) = 3
    /\ fResult = "err"

\* the chunk list handed to ReconstructFile holds chunks of the split, each at
\* most once, in any order
SomeOfSplit ==
    /\ \A p \in DOMAIN cIn :
           \E q \in DOMAIN cSplit.metadata.chunks : cIn[p] = cSplit.metadata.chunks[q]
    /\ \A p, q \in DOMAIN cIn : p # q => cIn[p].index # cIn[q].index

SuppliedIndices == {cIn[p].index : p \in DOMAIN cIn}

\* an index below a supplied one is not supplied
HoleBelowSupplied ==
    \E i \in SuppliedIndices : \E j \in 0..(i - 1) : j \notin SuppliedIndices

\* C35: given chunks of a split, each at most once and in any order,
\* ReconstructFile answers NoChunks exactly for the empty list and MissingChunk
\* exactly when an index below a supplied one is absent; given the chunks with
\* indices 0..m-1, for any m from 1 to the count of the split, it succeeds and
\* writes the first m payloads only: the file cut off after them.
C35_TruncatedReconstruct ==
    (cPhase = "reconstructed" /\ SomeOfSplit) =>
        /\ cRecon.status = "NoChunks" <=> cIn = <<>>
        /\ cRecon.status = "MissingChunk" <=> (cIn # <<>> /\ HoleBelowSupplied)
        /\ (cIn # <<>> /\ SuppliedIndices = 0..(Len(cIn) - 1)) =>
               /\ cRecon.status = "ok"
               /\ cRecon.output =
                      SubSeq(cFile, 1,
                             SumSizes(SubSeq(cSplit.metadata.chunks, 1, Len(cIn))))

\* the last of three one-byte chunks is left out, the other two arrive in
\* reverse order: two of the three bytes are written
C35_Witness ==
    /\ cPhase = "reconstructed"
    /\ cK = 3
    /\ Len(cFile) = 3
    /\ Len(cIn) = 2
    /\ cIn[1] = cSplit.metadata.chunks[2]
    /\ cIn[2] = cSplit.metadata.chunks[1]
    /\ cRecon.status = "ok"
    /\ cRecon.output = SubSeq(cFile, 1, 2)
    /\ cRecon.output # cFile

\* C36: whenever APIClient.DeleteFile returns without error for the id of a
\* file uploaded through APIClient.UploadFile, the coordinator no longer holds
\* the file and no later APIClient.ListFiles returns the id.
C36_ClientDeleteEffective ==
    \A i, u \in DOMAIN apiCalls :
        (/\ apiCalls[i].op = "DeleteFile"
         /\ ~apiCalls[i].err
         /\ u < i
         /\ apiCalls[u].op = "UploadFile"
         /\ ~apiCalls[u].err
         /\ apiCalls[u].id = apiCalls[i].id)
        => /\ apiCalls[i].id \notin apiCalls[i].after
           /\ \A j \in DOMAIN apiCalls :
                  (j > i /\ apiCalls[j].op = "ListFiles" /\ ~apiCalls[j].err)
                  => apiCalls[i].id \notin apiCalls[j].files

====
